---- MODULE Spec2Model ----
(***************************************************************************)
(* A model of the LTM memory store (server/store.py), its phased eviction  *)
(* engine (server/eviction.py) and the priority scorer                     *)
(* (server/priority.py).                                                   *)
(*                                                                         *)
(* The on-disk state is the set of content files (memories/{id}.md), the   *)
(* archive files (archives/{id}.md), index.json and stats.json; the        *)
(* in-process state is the store's two catalog caches.  Every public       *)
(* method is one action that runs the whole method, including every write  *)
(* it makes.  A write may fail (specification SpecFault): the set of       *)
(* failing write attempts of one call is an input of the action.           *)
(***************************************************************************)
EXTENDS Integers, Sequences, FiniteSets, TLC

(***************************************************************************)
(* Bounds of the model.                                                    *)
(***************************************************************************)
\* number of ids _generate_id can hand out
NumIds == 2
\* largest eviction batch_size a store is configured with
MaxBatch == 2
\* largest max_memories a store is configured with
MaxCapacity == 1
\* how many write attempts of a single call may fail
MaxFaults == 1
\* how many counted reads (update_stats=True) a record gets
MaxAccess == 2
\* how many calls a behaviour without failing writes makes
MaxCalls == 4
\* how many calls a behaviour with failing writes makes
MaxFaultCalls == 3
\* how many calls are made on a store that starts out drifted
MaxDriftCalls == 2
\* EvictionConfig.hint_max_chars as configured in the model
HintMaxChars == 4
\* EvictionConfig.abstract_max_chars as configured in the model
AbstractMaxChars == 3

Ids == 1..NumIds

Min(a, b) == IF a < b THEN a ELSE b
Max(a, b) == IF a > b THEN a ELSE b

(***************************************************************************)
(* Text.  A text is a sequence of one-character strings, so that strip,    *)
(* slicing, split and substring tests are computed as Python computes      *)
(* them.                                                                   *)
(***************************************************************************)
SummaryHeader ==
    << "#", "#", " ", "S", "u", "m", "m", "a", "r", "y" >>
ContentHeader ==
    << "#", "#", " ", "C", "o", "n", "t", "e", "n", "t" >>
HeaderPrefix ==
    << "#", "#", " " >>
HintMarker ==
    << "\n", "\n", "*", "[", "C", "o", "n", "t", "e", "n", "t", " ", "r",
       "e", "d", "u", "c", "e", "d", " ", "-", " ", "s", "e", "e", " ",
       "a", "r", "c", "h", "i", "v", "e", "s", " ", "f", "o", "r", " ",
       "f", "u", "l", "l", " ", "v", "e", "r", "s", "i", "o", "n", "]", "*" >>
Ellipsis ==
    << ".", ".", "." >>
AbstractPrefix ==
    << "*", "A", "b", "s", "t", "r", "a", "c", "t", ":", " " >>
AbstractSuffix ==
    << "*", "\n", "\n", "*", "[", "F", "u", "l", "l", " ", "c", "o", "n",
       "t", "e", "n", "t", " ", "a", "r", "c", "h", "i", "v", "e", "d",
       "]", "*" >>

\* the contents callers pass to create (LongText, SectionText) and to update
\* (ShortText)
ShortText ==
    << "a", "b" >>
LongText ==
    << " ", "a", "l", "p", "h", "a", " ", "b", "e", "t", "a", "\n" >>
SectionText ==
    << "#", "#", " ", "S", "u", "m", "m", "a", "r", "y", "\n", "s", "u",
       "m", "\n", "#", "#", " ", "C", "o", "n", "t", "e", "n", "t", "\n",
       "b", "o", "d", "y", " ", "t", "e", "x", "t" >>
Contents == {LongText, SectionText}

IsSpace(c) == c \in {" ", "\n"}

RECURSIVE LStrip(_)
LStrip(s) ==
    IF s = <<>> THEN s
    ELSE IF IsSpace(Head(s)) THEN LStrip(Tail(s)) ELSE s

RECURSIVE RStrip(_)
RStrip(s) ==
    IF s = <<>> THEN s
    ELSE IF IsSpace(s[Len(s)]) THEN RStrip(SubSeq(s, 1, Len(s) - 1)) ELSE s

\* str.strip()
Strip(s) == RStrip(LStrip(s))

\* s[:n]
Take(s, n) == SubSeq(s, 1, Min(n, Len(s)))

\* s[a:b] for 0 <= a <= b
Slice(s, a, b) == SubSeq(s, a + 1, Min(b, Len(s)))

MatchAt(s, p, i) ==
    /\ i + Len(p) - 1 <= Len(s)
    /\ SubSeq(s, i, i + Len(p) - 1) = p

\* str.find(p) + 1: the first position of p in s, 0 when p does not occur
Find(s, p) ==
    IF \E i \in 1..Len(s) : MatchAt(s, p, i)
    THEN CHOOSE i \in 1..Len(s) :
            MatchAt(s, p, i) /\ \A j \in 1..(i - 1) : ~MatchAt(s, p, j)
    ELSE 0

\* p in s
Contains(s, p) == p = <<>> \/ Find(s, p) # 0

\* s.split(p)[0]
SplitFirst(s, p) ==
    IF Find(s, p) = 0 THEN s ELSE SubSeq(s, 1, Find(s, p) - 1)

\* s.startswith(p)
StartsWith(s, p) == MatchAt(s, p, 1)

\* s.split("\n")
RECURSIVE SplitLines(_)
SplitLines(s) ==
    LET k == Find(s, << "\n" >>)
    IN  IF k = 0 THEN << s >>
        ELSE << SubSeq(s, 1, k - 1) >> \o SplitLines(SubSeq(s, k + 1, Len(s)))

\* the content _reduce_to_hint writes for a record whose content is `content`
HintContent(content) ==
    IF Contains(content, SummaryHeader)
    THEN Strip(SplitFirst(content, ContentHeader)) \o HintMarker
    ELSE IF Len(content) > HintMaxChars
         THEN Take(content, HintMaxChars) \o Ellipsis \o HintMarker
         ELSE Take(content, HintMaxChars)

\* the first stripped line that is neither empty nor a "## " header
RECURSIVE FirstTextLine(_)
FirstTextLine(lines) ==
    IF lines = <<>> THEN <<>>
    ELSE LET stripped == Strip(Head(lines))
         IN  IF stripped # <<>> /\ ~StartsWith(stripped, HeaderPrefix)
             THEN stripped
             ELSE FirstTextLine(Tail(lines))

\* the content _reduce_to_abstract writes for a record whose content is `content`
AbstractContent(content) ==
    LET first_line == FirstTextLine(SplitLines(content))
        cut == IF Len(first_line) > AbstractMaxChars
               THEN Take(first_line, AbstractMaxChars) \o Ellipsis
               ELSE first_line
    IN  AbstractPrefix \o cut \o AbstractSuffix

(***************************************************************************)
(* Metadata values.  A value of a metadata field is a record with a kind:  *)
(* a string (its text), a boolean, an integer, a float (its literal) or a  *)
(* list (its items, each a text).  _write_memory_file renders a value as   *)
(* the text after "key:" and the "  - item" lines under it;                *)
(* _parse_simple_yaml reads it back.                                       *)
(***************************************************************************)
Str(t) == [kind |-> "str", text |-> t]
BoolV(b) == [kind |-> "bool", b |-> b]
IntV(n) == [kind |-> "int", n |-> n]
FloatV(t) == [kind |-> "float", text |-> t]
ListV(items) == [kind |-> "list", items |-> items]

QuoteMark == << "\"" >>
TrueText == << "t", "r", "u", "e" >>
FalseText == << "f", "a", "l", "s", "e" >>
PyTrue == << "T", "r", "u", "e" >>
PyFalse == << "F", "a", "l", "s", "e" >>

UpperCase ==
    << "A", "B", "C", "D", "E", "F", "G", "H", "I", "J", "K", "L", "M",
       "N", "O", "P", "Q", "R", "S", "T", "U", "V", "W", "X", "Y", "Z" >>
LowerCase ==
    << "a", "b", "c", "d", "e", "f", "g", "h", "i", "j", "k", "l", "m",
       "n", "o", "p", "q", "r", "s", "t", "u", "v", "w", "x", "y", "z" >>

\* str.lower()
Lower(s) ==
    [k \in 1..Len(s) |->
        IF \E u \in 1..Len(UpperCase) : UpperCase[u] = s[k]
        THEN LowerCase[CHOOSE u \in 1..Len(UpperCase) : UpperCase[u] = s[k]]
        ELSE s[k]]

DigitChars == << "0", "1", "2", "3", "4", "5", "6", "7", "8", "9" >>
IsDigit(c) == \E d \in 1..Len(DigitChars) : DigitChars[d] = c
DigitValue(c) == (CHOOSE d \in 1..Len(DigitChars) : DigitChars[d] = c) - 1

\* int(s) of a text of digits
RECURSIVE DigitsToInt(_)
DigitsToInt(s) ==
    IF s = <<>> THEN 0
    ELSE DigitsToInt(SubSeq(s, 1, Len(s) - 1)) * Len(DigitChars)
         + DigitValue(s[Len(s)])

\* str(n) of n >= 0
RECURSIVE IntToDigits(_)
IntToDigits(n) ==
    IF n < Len(DigitChars) THEN << DigitChars[n + 1] >>
    ELSE IntToDigits(n \div Len(DigitChars))
         \o << DigitChars[(n % Len(DigitChars)) + 1] >>

\* value[1:-1] when value starts and ends with a double quote
Unquote(value) ==
    IF value # <<>> /\ Head(value) = "\"" /\ value[Len(value)] = "\""
    THEN SubSeq(value, 2, Len(value) - 1)
    ELSE value

\* value.replace(".", "").replace("-", "").isdigit()
LooksNumeric(value) ==
    /\ \E k \in 1..Len(value) : IsDigit(value[k])
    /\ \A k \in 1..Len(value) : IsDigit(value[k]) \/ value[k] \in {".", "-"}

\* int(value) / float(value) accept the literal: at most a leading sign and,
\* for a float, one point
NumberLiteral(value) ==
    /\ \A k \in 2..Len(value) : value[k] # "-"
    /\ Cardinality({k \in 1..Len(value) : value[k] = "."}) <= 1

\* the type conversion of _parse_simple_yaml for a non-empty scalar
ConvertScalar(value) ==
    IF Lower(value) \in {TrueText, FalseText}
    THEN BoolV(Lower(value) = TrueText)
    ELSE IF LooksNumeric(value) /\ NumberLiteral(value)
         THEN IF \E k \in 1..Len(value) : value[k] = "."
              THEN FloatV(value)
              ELSE IF Head(value) = "-"
                   THEN IntV(0 - DigitsToInt(Tail(value)))
                   ELSE IntV(DigitsToInt(value))
         ELSE Str(value)

\* what _write_memory_file writes for a field: the text after "key:" and
\* the item lines under it
RenderField(v) ==
    IF v.kind = "list" THEN [text |-> <<>>, items |-> v.items]
    ELSE IF v.kind = "str"
         THEN [text |-> QuoteMark \o v.text \o QuoteMark, items |-> <<>>]
    ELSE IF v.kind = "bool"
         THEN [text |-> IF v.b THEN PyTrue ELSE PyFalse, items |-> <<>>]
    ELSE IF v.kind = "int"
         THEN [text |-> IF v.n < 0 THEN << "-" >> \o IntToDigits(0 - v.n)
                        ELSE IntToDigits(v.n),
               items |-> <<>>]
    ELSE [text |-> v.text, items |-> <<>>]

\* the items _parse_simple_yaml collects from the "  - item" lines
ParseItems(items) == [k \in 1..Len(items) |-> Unquote(Strip(items[k]))]

\* what _parse_simple_yaml reads from a rendered field
ParseField(r) ==
    IF Unquote(Strip(r.text)) = <<>> THEN ListV(ParseItems(r.items))
    ELSE ConvertScalar(Unquote(Strip(r.text)))

\* the topics and tag lists callers pass
TopicPlain == << "G", "o" >>
TopicNumber == << "4", "2" >>
TagPy == << "p", "y" >>
TagGo == << "g", "o" >>
\* the created_at stamp of every record (the clock is not modelled)
CreatedAt == << "t" >>

(***************************************************************************)
(* Priority (server/priority.py).  Difficulty is counted in tenths and a   *)
(* priority in thousandths, which is exact for every value the model       *)
(* reaches (1 + sessions_since divides 300 for sessions_since <= 5).       *)
(***************************************************************************)
\* DIFFICULTY_WEIGHT = 0.4, per tenth of difficulty, in thousandths
DifficultyWeight == 40
\* RECENCY_WEIGHT = 0.3, in thousandths
RecencyWeight == 300
\* FREQUENCY_WEIGHT = 0.3, per access below the cap, in thousandths
FrequencyWeight == 30
\* FREQUENCY_CAP
FrequencyCap == 10
\* the upper end of the priority range, 1.0, in thousandths
PriorityOne == 1000
\* the upper end of the difficulty range, 1.0, in tenths
DifficultyOne == 10
\* state.json's session_count as _read_state creates it
SessionCount == 1
\* the difficulties callers pass to create and update, in tenths
Difficulties == {2, 8}

NoFile == [absent |-> TRUE]
NoEntry == [absent |-> TRUE]

\* _calculate_recency, in thousandths of the recency weight
CalculateRecency(last_session, current_session) ==
    RecencyWeight \div (1 + Max(0, current_session - last_session))

\* _calculate_frequency, in thousandths of the frequency weight
CalculateFrequency(access_count) ==
    FrequencyWeight * Min(FrequencyCap, access_count)

\* PriorityCalculator.calculate; `stats` is a stats entry or NoEntry (an
\* empty dict: access_count and last_session default to 0)
Calculate(difficulty, stats, current_session) ==
    LET last_session == IF stats = NoEntry THEN 0 ELSE stats.last_session
        access_count == IF stats = NoEntry THEN 0 ELSE stats.access_count
        priority == difficulty * DifficultyWeight
                    + CalculateRecency(last_session, current_session)
                    + CalculateFrequency(access_count)
    IN  Max(0, Min(PriorityOne, priority))

(***************************************************************************)
(* calculate_difficulty works on quotients of its arguments, which are     *)
(* kept exact: a number is the fraction n/d in lowest terms with d > 0.    *)
(***************************************************************************)
RECURSIVE GCD(_, _)
GCD(a, b) == IF b = 0 THEN a ELSE GCD(b, a % b)

Abs(a) == IF a < 0 THEN 0 - a ELSE a

\* n/d in lowest terms, for d # 0
Frac(n, d) ==
    LET g == GCD(Abs(n), Abs(d))
        sign == IF d < 0 THEN 0 - 1 ELSE 1
    IN  [n |-> sign * (n \div g), d |-> Abs(d) \div g]

FracZero == Frac(0, 1)
FracOne == Frac(1, 1)
FracAdd(a, b) == Frac(a.n * b.d + b.n * a.d, a.d * b.d)
FracMul(a, b) == Frac(a.n * b.n, a.d * b.d)
FracLeq(a, b) == a.n * b.d <= b.n * a.d
FracMin(a, b) == IF FracLeq(a, b) THEN a ELSE b
FracMax(a, b) == IF FracLeq(a, b) THEN b ELSE a

\* TOOL_COUNT_CAP
ToolCountCap == 50

\* the weights of the formula with token usage: failure rate, tool count,
\* token usage, compaction
TokenWeights ==
    [failure |-> Frac(25, 100), tools |-> Frac(15, 100),
     tokens |-> Frac(35, 100), compaction |-> Frac(25, 100)]

\* the weights of the formula without token usage
LegacyWeights ==
    [failure |-> Frac(50, 100), tools |-> Frac(30, 100),
     compaction |-> Frac(20, 100)]

\* a test that takes the formula with token usage whatever the token count
UsesTokensAlways(session_tokens) == TRUE

\* the test that selects the formula with token usage
UsesTokens(session_tokens) == session_tokens > 0

\* PriorityCalculator.calculate_difficulty; returns [exc, val], val being
\* the fraction returned when exc is "none"
CalculateDifficulty(tool_failures, tool_successes, compacted, session_tokens, token_normalize_cap) ==
    LET total == tool_failures + tool_successes
        failure_rate == IF total = 0 THEN FracZero
                        ELSE Frac(tool_failures, total)
        tool_count_norm == IF total = 0 THEN FracZero
                           ELSE FracMin(FracOne, Frac(total, ToolCountCap))
        compaction_bonus == IF compacted THEN FracOne ELSE FracZero
    IN  IF UsesTokens(session_tokens)
        THEN IF token_normalize_cap = 0
             THEN [exc |-> "ZeroDivisionError", val |-> FracZero]
             ELSE LET token_usage_norm ==
                          FracMin(FracOne,
                                  Frac(session_tokens, token_normalize_cap))
                      difficulty ==
                          FracAdd(FracAdd(FracMul(failure_rate,
                                                  TokenWeights.failure),
                                          FracMul(tool_count_norm,
                                                  TokenWeights.tools)),
                                  FracAdd(FracMul(token_usage_norm,
                                                  TokenWeights.tokens),
                                          FracMul(compaction_bonus,
                                                  TokenWeights.compaction)))
                  IN  [exc |-> "none",
                       val |-> FracMax(FracZero, FracMin(FracOne, difficulty))]
        ELSE LET difficulty ==
                     FracAdd(FracAdd(FracMul(failure_rate,
                                             LegacyWeights.failure),
                                     FracMul(tool_count_norm,
                                             LegacyWeights.tools)),
                             FracMul(compaction_bonus,
                                     LegacyWeights.compaction))
             IN  [exc |-> "none",
                  val |-> FracMax(FracZero, FracMin(FracOne, difficulty))]

(***************************************************************************)
(* The store.  S is the state one call works on:                           *)
(*   files, archives : id -> the file's record, or NoFile                  *)
(*   index, stats    : id -> the entry in index.json / stats.json          *)
(*   icache, scache  : _index_cache / _stats_cache                         *)
(*   n               : write attempts the call has made                    *)
(*   F               : the write attempts of the call that fail            *)
(* Ids are handed out in increasing order, so the insertion order of the   *)
(* index dict is the order of the ids.                                     *)
(* A method returns [st, exc, val]: the state it leaves, the exception it  *)
(* raises ("none" when it returns) and the value it returns.               *)
(***************************************************************************)
Ret(st, exc, val) == [st |-> st, exc |-> exc, val |-> val]

\* K applied to the result v of a call: the result is computed once and
\* named, as a local variable of the method is
Bind(v, K(_)) == K(v)

NoCache == [loaded |-> FALSE]
Cached(m) == [loaded |-> TRUE, m |-> m]

Tick(S) == [S EXCEPT !.n = @ + 1]
Fails(S) == (S.n + 1) \in S.F

\* allowed_fields of update
AllowedFields == {"content", "tags", "phase", "difficulty", "topic"}

\* a merge that takes every keyword argument, allowed or not
MergeAny(data, fields) ==
    [k \in DOMAIN data |-> IF k \in DOMAIN fields THEN fields[k] ELSE data[k]]

\* update's merge: the keyword arguments that are allowed fields replace
\* the values `data` holds for them (a content file holds every allowed
\* field; an index entry holds topic, tags, phase and difficulty of them)
Merge(data, fields) ==
    [k \in DOMAIN data |->
        IF k \in DOMAIN fields \cap AllowedFields THEN fields[k]
        ELSE data[k]]

\* the file _write_memory_file builds from `data`
RenderFile(data) ==
    [data EXCEPT !.topic = RenderField(@), !.tags = RenderField(@)]

\* _write_memory_file: temp file + rename; a failure leaves the destination
WriteMemoryFile(S, id, data, dir) ==
    IF Fails(S) THEN Ret(Tick(S), "OSError", FALSE)
    ELSE IF dir = "archives"
         THEN Ret([Tick(S) EXCEPT !.archives[id] = RenderFile(data)],
                  "none", TRUE)
         ELSE Ret([Tick(S) EXCEPT !.files[id] = RenderFile(data)],
                  "none", TRUE)

\* _parse_memory_file: the metadata block and the stripped body
ParseMemoryFile(f) ==
    [f EXCEPT !.topic = ParseField(@), !.tags = ParseField(@),
              !.content = Strip(@)]

\* _read_index: the cached dict, loaded from index.json on first use
ReadIndex(S) ==
    IF S.icache.loaded THEN S ELSE [S EXCEPT !.icache = Cached(S.index)]

\* the caller's in-place change of the cached dict, then _write_index
WriteIndex(S, data) ==
    LET S1 == [S EXCEPT !.icache = Cached(data)]
    IN  IF Fails(S) THEN Ret(Tick(S1), "OSError", FALSE)
        ELSE Ret([Tick(S1) EXCEPT !.index = data], "none", TRUE)

\* _read_stats
ReadStats(S) ==
    IF S.scache.loaded THEN S ELSE [S EXCEPT !.scache = Cached(S.stats)]

\* the caller's in-place change of the cached dict, then _write_stats
WriteStats(S, data) ==
    LET S1 == [S EXCEPT !.scache = Cached(data)]
    IN  IF Fails(S) THEN Ret(Tick(S1), "OSError", FALSE)
        ELSE Ret([Tick(S1) EXCEPT !.stats = data], "none", TRUE)

\* Path.unlink of a content file
UnlinkFile(S, id) ==
    IF Fails(S) THEN Ret(Tick(S), "OSError", FALSE)
    ELSE Ret([Tick(S) EXCEPT !.files[id] = NoFile], "none", TRUE)

\* Path.unlink of an archive file
UnlinkArchive(S, id) ==
    IF Fails(S) THEN Ret(Tick(S), "OSError", FALSE)
    ELSE Ret([Tick(S) EXCEPT !.archives[id] = NoFile], "none", TRUE)

\* create that writes the index entry and the stats entry before the
\* content file
CreateFileLast(S, id, topic, content, tags, difficulty) ==
    Bind([id |-> id,
          topic |-> Str(topic),
          tags |-> ListV(tags),
          phase |-> 0,
          difficulty |-> Max(0, Min(DifficultyOne, difficulty)),
          created_at |-> CreatedAt,
          created_session |-> SessionCount,
          content |-> content], LAMBDA memory_data :
    Bind(ReadIndex(S), LAMBDA S2 :
    Bind(WriteIndex(S2, [S2.icache.m EXCEPT ![id] =
             [topic |-> Str(topic),
              tags |-> ListV(tags),
              phase |-> 0,
              difficulty |-> memory_data.difficulty,
              created_at |-> CreatedAt]]),
         LAMBDA w2 :
    IF w2.exc # "none" THEN Ret(w2.st, w2.exc, 0)
    ELSE
    Bind(ReadStats(w2.st), LAMBDA S3 :
    Bind(WriteStats(S3, [S3.scache.m EXCEPT ![id] =
             [access_count |-> 0,
              last_session |-> SessionCount,
              priority |-> Calculate(memory_data.difficulty,
                              [access_count |-> 0,
                               last_session |-> SessionCount],
                              SessionCount)]]),
         LAMBDA w3 :
    IF w3.exc # "none" THEN Ret(w3.st, w3.exc, 0)
    ELSE
    Bind(WriteMemoryFile(w3.st, id, memory_data, "memories"), LAMBDA w1 :
    Ret(w1.st, w1.exc, IF w1.exc = "none" THEN id ELSE 0)))))))

\* MemoryStore.create with the id _generate_id returned
Create(S, id, topic, content, tags, difficulty) ==
    Bind([id |-> id,
          topic |-> Str(topic),
          tags |-> ListV(tags),
          phase |-> 0,
          difficulty |-> Max(0, Min(DifficultyOne, difficulty)),
          created_at |-> CreatedAt,
          created_session |-> SessionCount,
          content |-> content], LAMBDA memory_data :
    Bind(WriteMemoryFile(S, id, memory_data, "memories"), LAMBDA w1 :
    IF w1.exc # "none" THEN Ret(w1.st, w1.exc, 0)
    ELSE
    Bind(ReadIndex(w1.st), LAMBDA S2 :
    Bind(WriteIndex(S2, [S2.icache.m EXCEPT ![id] =
             [topic |-> Str(topic),
              tags |-> ListV(tags),
              phase |-> 0,
              difficulty |-> memory_data.difficulty,
              created_at |-> CreatedAt]]),
         LAMBDA w2 :
    IF w2.exc # "none" THEN Ret(w2.st, w2.exc, 0)
    ELSE
    Bind(ReadStats(w2.st), LAMBDA S3 :
    Bind(WriteStats(S3, [S3.scache.m EXCEPT ![id] =
             [access_count |-> 0,
              last_session |-> SessionCount,
              priority |-> Calculate(memory_data.difficulty,
                              [access_count |-> 0,
                               last_session |-> SessionCount],
                              SessionCount)]]),
         LAMBDA w3 :
    Ret(w3.st, w3.exc, IF w3.exc = "none" THEN id ELSE 0)))))))

\* a stats entry whose access_count is not counted up
AccessedStatsSameCount(old, memory_data) ==
    LET count == IF old = NoEntry THEN 0 ELSE old.access_count
        entry == [access_count |-> count, last_session |-> SessionCount]
    IN  [access_count |-> count,
         last_session |-> SessionCount,
         priority |-> Calculate(memory_data.difficulty, entry, SessionCount)]

\* the stats entry read() stores: one more access, in the current session
AccessedStats(old, memory_data) ==
    LET count == (IF old = NoEntry THEN 0 ELSE old.access_count) + 1
        entry == [access_count |-> count, last_session |-> SessionCount]
    IN  [access_count |-> count,
         last_session |-> SessionCount,
         priority |-> Calculate(memory_data.difficulty, entry, SessionCount)]

\* MemoryStore.read
Read(S, id, update_stats) ==
    IF S.files[id] = NoFile THEN Ret(S, "MemoryNotFoundError", NoFile)
    ELSE
    Bind(ParseMemoryFile(S.files[id]), LAMBDA memory_data :
    IF ~update_stats THEN Ret(S, "none", memory_data)
    ELSE
    Bind(ReadStats(S), LAMBDA S1 :
    Bind(WriteStats(S1, [S1.scache.m EXCEPT ![id] =
                            AccessedStats(@, memory_data)]), LAMBDA w :
    Ret(w.st, w.exc, memory_data))))

\* MemoryStore.update; `fields` is the record of the keyword arguments
Update(S, id, fields) ==
    Bind(Read(S, id, FALSE), LAMBDA r :
    IF r.exc # "none" THEN Ret(r.st, r.exc, FALSE)
    ELSE
    Bind(WriteMemoryFile(r.st, id, Merge(r.val, fields), "memories"),
         LAMBDA w1 :
    IF w1.exc # "none" THEN w1
    ELSE
    Bind(ReadIndex(w1.st), LAMBDA S2 :
    IF S2.icache.m[id] = NoEntry THEN Ret(S2, "none", TRUE)
    ELSE
    Bind(WriteIndex(S2, [S2.icache.m EXCEPT ![id] = Merge(@, fields)]),
         LAMBDA w2 :
    Ret(w2.st, w2.exc, w2.exc = "none")))))

\* the removal of the index entry in MemoryStore.delete
DeleteIndexEntry(S, id) ==
    Bind(ReadIndex(S), LAMBDA S1 :
    IF S1.icache.m[id] = NoEntry THEN Ret(S1, "none", TRUE)
    ELSE WriteIndex(S1, [S1.icache.m EXCEPT ![id] = NoEntry]))

\* delete that leaves the stats entry behind
DeleteStatsEntryForgotten(S, id) == Ret(S, "none", TRUE)

\* the removal of the stats entry in MemoryStore.delete
DeleteStatsEntry(S, id) ==
    Bind(ReadStats(S), LAMBDA S1 :
    IF S1.scache.m[id] = NoEntry THEN Ret(S1, "none", TRUE)
    ELSE WriteStats(S1, [S1.scache.m EXCEPT ![id] = NoEntry]))

\* delete that never makes the archive copy
DeleteArchiveSkipped(S, id, archive) == Ret(S, "none", TRUE)

\* the archive copy MemoryStore.delete makes first
DeleteArchive(S, id, archive) ==
    IF archive /\ S.archives[id] = NoFile
    THEN WriteMemoryFile(S, id, ParseMemoryFile(S.files[id]), "archives")
    ELSE Ret(S, "none", TRUE)

\* delete without the test for the content file: an id without one has its
\* catalog entries removed
DeleteUnchecked(S, id, archive) ==
    IF S.files[id] = NoFile
    THEN Bind(DeleteIndexEntry(S, id), LAMBDA w1 :
         IF w1.exc # "none" THEN w1
         ELSE DeleteStatsEntry(w1.st, id))
    ELSE
    Bind(DeleteArchive(S, id, archive), LAMBDA w0 :
    IF w0.exc # "none" THEN w0
    ELSE
    Bind(UnlinkFile(w0.st, id), LAMBDA u :
    IF u.exc # "none" THEN u
    ELSE
    Bind(DeleteIndexEntry(u.st, id), LAMBDA w1 :
    IF w1.exc # "none" THEN w1
    ELSE DeleteStatsEntry(w1.st, id))))

\* MemoryStore.delete
Delete(S, id, archive) ==
    IF S.files[id] = NoFile THEN Ret(S, "MemoryNotFoundError", FALSE)
    ELSE
    Bind(DeleteArchive(S, id, archive), LAMBDA w0 :
    IF w0.exc # "none" THEN w0
    ELSE
    Bind(UnlinkFile(w0.st, id), LAMBDA u :
    IF u.exc # "none" THEN u
    ELSE
    Bind(DeleteIndexEntry(u.st, id), LAMBDA w1 :
    IF w1.exc # "none" THEN w1
    ELSE DeleteStatsEntry(w1.st, id))))

\* the positions of `keys` ordered by key, equal keys in their given order:
\* the order sorted(seq, key=...) and list.sort(key=...) produce
RECURSIVE StableOrder(_, _)
StableOrder(P, keys) ==
    IF P = {} THEN <<>>
    ELSE LET p == CHOOSE x \in P : \A y \in P :
                      \/ keys[x] < keys[y]
                      \/ keys[x] = keys[y] /\ x <= y
         IN  << p >> \o StableOrder(P \ {p}, keys)

\* the ids of m that have an entry, in dict order
RECURSIVE EntryIds(_, _)
EntryIds(m, i) ==
    IF i \notin DOMAIN m THEN <<>>
    ELSE (IF m[i] = NoEntry THEN <<>> ELSE << i >>) \o EntryIds(m, i + 1)

\* an optional argument: not given (None), or given with a value
NoArg == [given |-> FALSE]
Given(v) == [given |-> TRUE, v |-> v]

\* list's three filters on an index entry
PassesFilters(meta, phase, tag, keyword) ==
    /\ phase.given => meta.phase = phase.v
    /\ tag.given => \E k \in 1..Len(meta.tags.items) :
                        meta.tags.items[k] = tag.v
    /\ keyword.given => Contains(Lower(meta.topic.text), Lower(keyword.v))

\* the summary list builds for an index entry
Summary(id, meta, mem_stats) ==
    [id |-> id,
     topic |-> meta.topic,
     tags |-> meta.tags,
     phase |-> meta.phase,
     difficulty |-> meta.difficulty,
     priority |-> IF mem_stats # NoEntry THEN mem_stats.priority
                  ELSE Calculate(meta.difficulty, NoEntry, SessionCount),
     access_count |-> IF mem_stats # NoEntry THEN mem_stats.access_count
                      ELSE 0]

\* a list that stores the priority it computed for an index entry without
\* a stats entry
ListFilteredPersist(S, phase, tag, keyword, limit, offset) ==
    LET S0 == ReadStats(ReadIndex(S))
        filled == [i \in DOMAIN S0.scache.m |->
                     IF S0.icache.m[i] # NoEntry /\ S0.scache.m[i] = NoEntry
                     THEN [access_count |-> 0,
                           last_session |-> SessionCount,
                           priority |-> Calculate(S0.icache.m[i].difficulty,
                                                  NoEntry, SessionCount)]
                     ELSE S0.scache.m[i]]
        S1 == [S0 EXCEPT !.scache = Cached(filled), !.stats = filled]
        index == S1.icache.m
        stats == S1.scache.m
        ids == SelectSeq(EntryIds(index, 1),
                         LAMBDA i : PassesFilters(index[i], phase, tag,
                                                  keyword))
        results == [k \in 1..Len(ids) |->
                      Summary(ids[k], index[ids[k]], stats[ids[k]])]
        order == StableOrder(1..Len(ids),
                             [k \in 1..Len(ids) |-> 0 - results[k].priority])
        sorted == [k \in 1..Len(ids) |-> results[order[k]]]
    IN  Ret(S1, "none", Slice(sorted, offset, offset + limit))

\* MemoryStore.list(phase, tag, keyword, limit, offset): the summaries that
\* pass the filters, highest priority first, sliced
ListFiltered(S, phase, tag, keyword, limit, offset) ==
    LET S1 == ReadStats(ReadIndex(S))
        index == S1.icache.m
        stats == S1.scache.m
        ids == SelectSeq(EntryIds(index, 1),
                         LAMBDA i : PassesFilters(index[i], phase, tag,
                                                  keyword))
        results == [k \in 1..Len(ids) |->
                      Summary(ids[k], index[ids[k]], stats[ids[k]])]
        order == StableOrder(1..Len(ids),
                             [k \in 1..Len(ids) |-> 0 - results[k].priority])
        sorted == [k \in 1..Len(ids) |-> results[order[k]]]
    IN  Ret(S1, "none", Slice(sorted, offset, offset + limit))

\* MemoryStore.list(limit=limit)
List(S, limit) == ListFiltered(S, NoArg, NoArg, NoArg, limit, 0)

\* the length from which search cuts the content it shows
SummaryMaxChars == 200

\* search's test of an index entry: the query in the topic, in a tag, or in
\* the content of the file when neither matched and the file exists
Matches(S, id, meta, query) ==
    \/ Contains(Lower(meta.topic.text), Lower(query))
    \/ \E k \in 1..Len(meta.tags.items) :
          Contains(Lower(meta.tags.items[k]), Lower(query))
    \/ /\ S.files[id] # NoFile
       /\ Contains(Lower(ParseMemoryFile(S.files[id]).content), Lower(query))

\* the result search builds for a matching index entry
SearchResult(S, id, meta, mem_stats) ==
    [id |-> id,
     topic |-> meta.topic,
     summary |-> IF S.files[id] = NoFile THEN <<>>
                 ELSE Bind(ParseMemoryFile(S.files[id]).content,
                           LAMBDA content :
                              IF Len(content) > SummaryMaxChars
                              THEN Take(content, SummaryMaxChars) \o Ellipsis
                              ELSE content),
     tags |-> meta.tags,
     phase |-> meta.phase,
     priority |-> IF mem_stats # NoEntry THEN mem_stats.priority
                  ELSE Calculate(meta.difficulty, NoEntry, SessionCount)]

\* MemoryStore.search(query, limit): the results for the matching index
\* entries, highest priority first, the first `limit` of them
Search(S, query, limit) ==
    LET S1 == ReadStats(ReadIndex(S))
        index == S1.icache.m
        stats == S1.scache.m
        ids == SelectSeq(EntryIds(index, 1),
                         LAMBDA i : Matches(S1, i, index[i], query))
        results == [k \in 1..Len(ids) |->
                      SearchResult(S1, ids[k], index[ids[k]], stats[ids[k]])]
        order == StableOrder(1..Len(ids),
                             [k \in 1..Len(ids) |-> 0 - results[k].priority])
        sorted == [k \in 1..Len(ids) |-> results[order[k]]]
    IN  Ret(S1, "none", Take(sorted, limit))

(***************************************************************************)
(* Eviction (server/eviction.py).  cfg is the EvictionConfig:              *)
(* [max_memories, batch_size].                                             *)
(***************************************************************************)
\* EvictionManager.needs_eviction
NeedsEviction(S, cfg) ==
    LET memories == List(S, cfg.max_memories + 1)
    IN  Ret(memories.st, "none", Len(memories.val) > cfg.max_memories)

\* _archive_memory without its test for an existing archive
ArchiveMemoryOverwrite(S, id) ==
    Bind(Read(S, id, FALSE), LAMBDA r :
    IF r.exc # "none" THEN Ret(r.st, "none", FALSE)
    ELSE
    Bind(WriteMemoryFile(r.st, id, r.val, "archives"), LAMBDA w :
    Ret(w.st, "none", w.exc = "none")))

\* EvictionManager._archive_memory
ArchiveMemory(S, id) ==
    IF S.archives[id] # NoFile THEN Ret(S, "none", FALSE)
    ELSE
    Bind(Read(S, id, FALSE), LAMBDA r :
    IF r.exc # "none" THEN Ret(r.st, "none", FALSE)
    ELSE
    Bind(WriteMemoryFile(r.st, id, r.val, "archives"), LAMBDA w :
    Ret(w.st, "none", w.exc = "none")))

\* _reduce_to_hint reading the record as an access (update_stats=True)
ReduceToHintCounted(S, id) ==
    Bind(Read(S, id, TRUE), LAMBDA r :
    IF r.exc # "none" THEN Ret(r.st, "none", FALSE)
    ELSE
    Bind(Update(r.st, id, [content |-> HintContent(r.val.content)]),
         LAMBDA u :
    Ret(u.st, "none", u.exc = "none")))

\* EvictionManager._reduce_to_hint
ReduceToHint(S, id) ==
    Bind(Read(S, id, FALSE), LAMBDA r :
    IF r.exc # "none" THEN Ret(r.st, "none", FALSE)
    ELSE
    Bind(Update(r.st, id, [content |-> HintContent(r.val.content)]),
         LAMBDA u :
    Ret(u.st, "none", u.exc = "none")))

\* EvictionManager._reduce_to_abstract
ReduceToAbstract(S, id) ==
    Bind(Read(S, id, FALSE), LAMBDA r :
    IF r.exc # "none" THEN Ret(r.st, "none", FALSE)
    ELSE
    Bind(Update(r.st, id, [content |-> AbstractContent(r.val.content)]),
         LAMBDA u :
    Ret(u.st, "none", u.exc = "none")))

NoTransitions == [t01 |-> 0, t12 |-> 0, t23 |-> 0]

\* the counters run() returns, and the ids whose processing raised
ZeroStats ==
    [processed |-> 0, transitions |-> NoTransitions, archived |-> 0,
     deleted |-> 0, raised |-> {}]

\* the phase 0 branch reducing the content before it archives it
ProcessPhase0ReduceFirst(S, id, stats) ==
    Bind(ReduceToHint(S, id), LAMBDA h :
    Bind(ArchiveMemory(h.st, id), LAMBDA a :
    Bind(IF a.val THEN [stats EXCEPT !.archived = @ + 1] ELSE stats,
         LAMBDA stats1 :
    Bind(Update(a.st, id, [phase |-> 1]), LAMBDA u :
    IF u.exc # "none" THEN Ret(u.st, u.exc, stats1)
    ELSE Ret(u.st, "none", [stats1 EXCEPT !.transitions.t01 = @ + 1])))))

\* run()'s branch for a summary at phase 0; val is the counters after it
ProcessPhase0(S, id, stats) ==
    Bind(ArchiveMemory(S, id), LAMBDA a :
    Bind(IF a.val THEN [stats EXCEPT !.archived = @ + 1] ELSE stats,
         LAMBDA stats1 :
    Bind(ReduceToHint(a.st, id), LAMBDA h :
    Bind(Update(h.st, id, [phase |-> 1]), LAMBDA u :
    IF u.exc # "none" THEN Ret(u.st, u.exc, stats1)
    ELSE Ret(u.st, "none", [stats1 EXCEPT !.transitions.t01 = @ + 1])))))

\* the phase 1 branch writing phase 3 instead of phase 2
ProcessPhase1Skip(S, id, stats) ==
    Bind(ReduceToAbstract(S, id), LAMBDA h :
    Bind(Update(h.st, id, [phase |-> 3]), LAMBDA u :
    IF u.exc # "none" THEN Ret(u.st, u.exc, stats)
    ELSE Ret(u.st, "none", [stats EXCEPT !.transitions.t12 = @ + 1])))

\* run()'s branch for a summary at phase 1
ProcessPhase1(S, id, stats) ==
    Bind(ReduceToAbstract(S, id), LAMBDA h :
    Bind(Update(h.st, id, [phase |-> 2]), LAMBDA u :
    IF u.exc # "none" THEN Ret(u.st, u.exc, stats)
    ELSE Ret(u.st, "none", [stats EXCEPT !.transitions.t12 = @ + 1])))

\* run()'s branch for a summary at phase 2
ProcessPhase2(S, id, stats) ==
    Bind(Delete(S, id, FALSE), LAMBDA d :
    IF d.exc # "none" THEN Ret(d.st, d.exc, stats)
    ELSE Ret(d.st, "none", [stats EXCEPT !.transitions.t23 = @ + 1,
                                         !.deleted = @ + 1]))

\* the body of run()'s try block for one summary of the batch
ProcessMemory(S, mem, stats) ==
    Bind(IF mem.phase = 0 THEN ProcessPhase0(S, mem.id, stats)
         ELSE IF mem.phase = 1 THEN ProcessPhase1(S, mem.id, stats)
         ELSE IF mem.phase = 2 THEN ProcessPhase2(S, mem.id, stats)
         ELSE Ret(S, "none", stats), LAMBDA r :
    IF r.exc # "none" THEN r
    ELSE Ret(r.st, "none", [r.val EXCEPT !.processed = @ + 1]))

\* one iteration of the loop without the try block: the exception leaves
\* the loop
ProcessUnguarded(S, mem, stats) ==
    IF mem.phase >= 3 THEN Ret(S, "none", stats)
    ELSE ProcessMemory(S, mem, stats)

\* one iteration of run()'s loop: phase >= 3 is skipped, an exception of
\* the try block is swallowed
ProcessGuarded(S, mem, stats) ==
    IF mem.phase >= 3 THEN Ret(S, "none", stats)
    ELSE
    Bind(ProcessMemory(S, mem, stats), LAMBDA r :
    IF r.exc # "none"
    THEN Ret(r.st, "none", [r.val EXCEPT !.raised = @ \cup {mem.id}])
    ELSE r)

\* run()'s loop over the batch
RECURSIVE ProcessBatch(_, _, _)
ProcessBatch(S, batch, stats) ==
    IF batch = <<>> THEN Ret(S, "none", stats)
    ELSE
    Bind(ProcessGuarded(S, Head(batch), stats), LAMBDA r :
    IF r.exc # "none" THEN r
    ELSE ProcessBatch(r.st, Tail(batch), r.val))

\* the summaries run() processes: of the listed ones, the batch_size with
\* the lowest priority
RunBatch(S, cfg) ==
    LET memories == List(S, cfg.max_memories + cfg.batch_size).val
        order == StableOrder(1..Len(memories),
                             [k \in 1..Len(memories) |-> memories[k].priority])
        sorted_memories == [k \in 1..Len(memories) |-> memories[order[k]]]
    IN  IF Len(memories) <= cfg.max_memories THEN <<>>
        ELSE Take(sorted_memories, cfg.batch_size)

\* run() without its capacity test
RunAlways(S, cfg) ==
    Bind(List(S, cfg.max_memories + cfg.batch_size), LAMBDA memories :
    ProcessBatch(memories.st,
        Take([k \in 1..Len(memories.val) |->
                 memories.val[StableOrder(1..Len(memories.val),
                     [j \in 1..Len(memories.val) |->
                         memories.val[j].priority])[k]]],
             cfg.batch_size),
        ZeroStats))

\* EvictionManager.run
Run(S, cfg) ==
    Bind(List(S, cfg.max_memories + cfg.batch_size), LAMBDA memories :
    IF Len(memories.val) <= cfg.max_memories
    THEN Ret(memories.st, "none", ZeroStats)
    ELSE ProcessBatch(memories.st, RunBatch(S, cfg), ZeroStats))

\* restore_from_archive that restores the content and leaves the phase
RestoreKeepPhase(S, id) ==
    IF S.archives[id] = NoFile THEN Ret(S, "none", FALSE)
    ELSE
    Bind(Update(S, id, [content |-> ParseMemoryFile(S.archives[id]).content]),
         LAMBDA u :
    Ret(u.st, "none", u.exc = "none"))

\* EvictionManager.restore_from_archive
RestoreFromArchive(S, id) ==
    IF S.archives[id] = NoFile THEN Ret(S, "none", FALSE)
    ELSE
    Bind(Update(S, id, [content |-> ParseMemoryFile(S.archives[id]).content,
                        phase |-> 0]), LAMBDA u :
    Ret(u.st, "none", u.exc = "none"))

\* EvictionManager.get_archived_content
GetArchivedContent(S, id) ==
    IF S.archives[id] = NoFile THEN NoFile
    ELSE ParseMemoryFile(S.archives[id]).content

(***************************************************************************)
(* Integrity (MemoryStore.check_integrity / fix_integrity).                *)
(***************************************************************************)
\* the ids of `set` in increasing order
RECURSIVE SeqOf(_)
SeqOf(set) ==
    IF set = {} THEN <<>>
    ELSE LET i == CHOOSE x \in set : \A y \in set : x <= y
         IN  << i >> \o SeqOf(set \ {i})

\* an invalidation that forgets the index and keeps the cached stats
InvalidateCacheKeepStats(S) == [S EXCEPT !.icache = NoCache]

\* MemoryStore.invalidate_cache
InvalidateCache(S) == [S EXCEPT !.icache = NoCache, !.scache = NoCache]

\* check_integrity that counts orphaned archives against health
CheckIntegrityStrict(S) ==
    LET S1 == ReadStats(ReadIndex(S))
        indexed_ids == {i \in DOMAIN S1.files : S1.icache.m[i] # NoEntry}
        stats_ids == {i \in DOMAIN S1.files : S1.scache.m[i] # NoEntry}
        file_ids == {i \in DOMAIN S1.files : S1.files[i] # NoFile}
        archive_ids == {i \in DOMAIN S1.files : S1.archives[i] # NoFile}
        orphaned_files == file_ids \ indexed_ids
        missing_files == indexed_ids \ file_ids
        orphaned_stats == stats_ids \ indexed_ids
        orphaned_archives == (archive_ids \ indexed_ids) \ file_ids
    IN  Ret(S1, "none",
            [orphaned_files |-> orphaned_files,
             missing_files |-> missing_files,
             orphaned_stats |-> orphaned_stats,
             orphaned_archives |-> orphaned_archives,
             is_healthy |-> /\ orphaned_files = {}
                            /\ missing_files = {}
                            /\ orphaned_stats = {}
                            /\ orphaned_archives = {}])

\* check_integrity that calls an archive orphaned when its id is not in the
\* index, whether or not it has a content file
CheckIntegrityLooseArchives(S) ==
    LET S1 == ReadStats(ReadIndex(S))
        indexed_ids == {i \in DOMAIN S1.files : S1.icache.m[i] # NoEntry}
        stats_ids == {i \in DOMAIN S1.files : S1.scache.m[i] # NoEntry}
        file_ids == {i \in DOMAIN S1.files : S1.files[i] # NoFile}
        archive_ids == {i \in DOMAIN S1.files : S1.archives[i] # NoFile}
        orphaned_files == file_ids \ indexed_ids
        missing_files == indexed_ids \ file_ids
        orphaned_stats == stats_ids \ indexed_ids
    IN  Ret(S1, "none",
            [orphaned_files |-> orphaned_files,
             missing_files |-> missing_files,
             orphaned_stats |-> orphaned_stats,
             orphaned_archives |-> archive_ids \ indexed_ids,
             is_healthy |-> /\ orphaned_files = {}
                            /\ missing_files = {}
                            /\ orphaned_stats = {}])

\* MemoryStore.check_integrity
CheckIntegrity(S) ==
    LET S1 == ReadStats(ReadIndex(S))
        indexed_ids == {i \in DOMAIN S1.files : S1.icache.m[i] # NoEntry}
        stats_ids == {i \in DOMAIN S1.files : S1.scache.m[i] # NoEntry}
        file_ids == {i \in DOMAIN S1.files : S1.files[i] # NoFile}
        archive_ids == {i \in DOMAIN S1.files : S1.archives[i] # NoFile}
        orphaned_files == file_ids \ indexed_ids
        missing_files == indexed_ids \ file_ids
        orphaned_stats == stats_ids \ indexed_ids
    IN  Ret(S1, "none",
            [orphaned_files |-> orphaned_files,
             missing_files |-> missing_files,
             orphaned_stats |-> orphaned_stats,
             orphaned_archives |-> (archive_ids \ indexed_ids) \ file_ids,
             is_healthy |-> /\ orphaned_files = {}
                            /\ missing_files = {}
                            /\ orphaned_stats = {}])

ZeroFix ==
    [archived_files |-> 0, removed_files |-> 0, removed_index_entries |-> 0,
     removed_stats_entries |-> 0, removed_orphaned_archives |-> 0]

\* shutil.copy2 of an orphaned file into the archives, failure swallowed;
\* val tells whether the copy was made
CopyOrphan(S, id, archive_orphans) ==
    IF archive_orphans /\ S.archives[id] = NoFile /\ S.files[id] # NoFile
    THEN IF Fails(S) THEN Ret(Tick(S), "none", FALSE)
         ELSE Ret([Tick(S) EXCEPT !.archives[id] = S.files[id]], "none", TRUE)
    ELSE Ret(S, "none", FALSE)

\* an unlink of an orphaned file that counts the attempt, made or not
RemoveOrphanCounted(S, id) ==
    IF S.files[id] = NoFile THEN Ret(S, "none", FALSE)
    ELSE Bind(UnlinkFile(S, id), LAMBDA u : Ret(u.st, "none", TRUE))

\* the unlink of an orphaned file, failure swallowed; val tells whether the
\* file was removed
RemoveOrphan(S, id) ==
    IF S.files[id] = NoFile THEN Ret(S, "none", FALSE)
    ELSE Bind(UnlinkFile(S, id), LAMBDA u : Ret(u.st, "none", u.val))

\* a loop over the orphaned files that handles none of them
FixOrphanedFilesNone(S, todo, archive_orphans, result) ==
    Ret(S, "none", result)

\* fix_integrity's loop over the orphaned files
RECURSIVE FixOrphanedFiles(_, _, _, _)
FixOrphanedFiles(S, todo, archive_orphans, result) ==
    IF todo = <<>> THEN Ret(S, "none", result)
    ELSE
    Bind(CopyOrphan(S, Head(todo), archive_orphans), LAMBDA c :
    Bind(RemoveOrphan(c.st, Head(todo)), LAMBDA u :
    FixOrphanedFiles(u.st, Tail(todo), archive_orphans,
        [result EXCEPT
            !.archived_files = @ + (IF c.val THEN 1 ELSE 0),
            !.removed_files = @ + (IF u.val THEN 1 ELSE 0)])))

\* the unlink of an orphaned archive, failure swallowed
RemoveOrphanedArchive(S, id) ==
    IF S.archives[id] = NoFile THEN Ret(S, "none", FALSE)
    ELSE Bind(UnlinkArchive(S, id), LAMBDA u : Ret(u.st, "none", u.val))

\* fix_integrity's loop over the orphaned archives
RECURSIVE FixOrphanedArchives(_, _, _)
FixOrphanedArchives(S, todo, result) ==
    IF todo = <<>> THEN Ret(S, "none", result)
    ELSE
    Bind(RemoveOrphanedArchive(S, Head(todo)), LAMBDA u :
    FixOrphanedArchives(u.st, Tail(todo),
        [result EXCEPT
            !.removed_orphaned_archives = @ + (IF u.val THEN 1 ELSE 0)]))

\* fix_integrity that drops the index entries of the missing files and
\* leaves the orphaned stats
FixCatalogsKeepStats(S, issues) ==
    [S EXCEPT
        !.icache = Cached([i \in DOMAIN S.files |->
                       IF i \in issues.missing_files THEN NoEntry
                       ELSE S.icache.m[i]])]

\* the index and stats dicts after fix_integrity dropped the entries of
\* the missing files and the orphaned stats from them
FixCatalogs(S, issues) ==
    [S EXCEPT
        !.icache = Cached([i \in DOMAIN S.files |->
                       IF i \in issues.missing_files THEN NoEntry
                       ELSE S.icache.m[i]]),
        !.scache = Cached([i \in DOMAIN S.files |->
                       IF i \in issues.orphaned_stats THEN NoEntry
                       ELSE S.scache.m[i]])]

\* the writes that end fix_integrity
FixWrites(S, issues, result) ==
    Bind(IF issues.missing_files # {} THEN WriteIndex(S, S.icache.m)
         ELSE Ret(S, "none", TRUE), LAMBDA w1 :
    IF w1.exc # "none" THEN Ret(w1.st, w1.exc, result)
    ELSE
    Bind(IF issues.orphaned_stats # {} THEN WriteStats(w1.st, w1.st.scache.m)
         ELSE Ret(w1.st, "none", TRUE), LAMBDA w2 :
    Ret(w2.st, w2.exc, result)))

\* MemoryStore.fix_integrity
FixIntegrity(S, archive_orphans, clean_orphaned_archives) ==
    Bind(CheckIntegrity(S), LAMBDA c :
    Bind(FixOrphanedFiles(c.st, SeqOf(c.val.orphaned_files),
                          archive_orphans, ZeroFix), LAMBDA f :
    Bind([f.val EXCEPT
             !.removed_index_entries = Cardinality(c.val.missing_files),
             !.removed_stats_entries = Cardinality(c.val.orphaned_stats)],
         LAMBDA result :
    Bind(IF clean_orphaned_archives
         THEN FixOrphanedArchives(FixCatalogs(f.st, c.val),
                                  SeqOf(c.val.orphaned_archives), result)
         ELSE Ret(FixCatalogs(f.st, c.val), "none", result), LAMBDA a :
    FixWrites(a.st, c.val, a.val)))))

(***************************************************************************)
(* The state machine: one store and its eviction manager.                  *)
(***************************************************************************)
VARIABLES
    files,      \* memories/{id}.md
    archives,   \* archives/{id}.md
    index,      \* index.json
    stats,      \* stats.json
    icache,     \* MemoryStore._index_cache
    scache,     \* MemoryStore._stats_cache
    nextId,     \* the id the next _generate_id returns
    cfg,        \* the EvictionConfig the manager was built with
    calls,      \* how many calls have been made
    last,       \* the call that led to this state and what it returned
    scen,       \* the record created last and the run() calls made since
    peer,       \* the caches of a second MemoryStore on the same directory
    proc        \* the store instances that are inside a create, step by step

vars == << files, archives, index, stats, icache, scache, nextId, cfg, calls,
           last, scen, peer, proc >>

NoScen == [absent |-> TRUE]
NoPre == [absent |-> TRUE]
NoProc == [absent |-> TRUE]

\* a second store that has loaded nothing yet
FreshPeer == [icache |-> NoCache, scache |-> NoCache]

\* the state a call starts from, with the write attempts F failing
Store(F) ==
    [files |-> files, archives |-> archives, index |-> index,
     stats |-> stats, icache |-> icache, scache |-> scache,
     n |-> 0, F |-> F]

\* the state a call leaves behind
Commit(S) ==
    /\ calls' = calls + 1
    /\ files' = S.files
    /\ archives' = S.archives
    /\ index' = S.index
    /\ stats' = S.stats
    /\ icache' = S.icache
    /\ scache' = S.scache
    /\ UNCHANGED << peer, proc >>

\* the sets of failing write attempts of a call that makes at most k
FaultSets(faulty, k) ==
    IF faulty
    THEN {F \in SUBSET (1..k) : Cardinality(F) <= MaxFaults}
    ELSE {{}}

CallBound(faulty) == IF faulty THEN MaxFaultCalls ELSE MaxCalls

Call(op, id, arg, r, pre) ==
    [op |-> op, id |-> id, arg |-> arg, exc |-> r.exc, val |-> r.val,
     pre |-> pre]

Configs ==
    [max_memories : 0..MaxCapacity, batch_size : 1..MaxBatch]

Init ==
    /\ files = [i \in Ids |-> NoFile]
    /\ archives = [i \in Ids |-> NoFile]
    /\ index = [i \in Ids |-> NoEntry]
    /\ stats = [i \in Ids |-> NoEntry]
    /\ icache = NoCache
    /\ scache = NoCache
    /\ nextId = 1
    /\ cfg \in Configs
    /\ calls = 0
    /\ last = [op |-> "init", id |-> 0, arg |-> 0, exc |-> "none",
               val |-> 0, pre |-> NoPre]
    /\ scen = NoScen
    /\ peer = FreshPeer
    /\ proc = NoProc

\* the topics and the tag lists create is called with when they vary
Topics == {TopicPlain, TrueText, TopicNumber}
TagLists == {<<>>, << TagPy >>}

\* create(topic, content, tags, difficulty) with the topic drawn from
\* `topics`, the tags from `taglists`, the content from `contents` and the
\* difficulty from `difficulties`
CreateAct(faulty, topics, taglists, contents, difficulties) ==
    /\ calls < CallBound(faulty)
    /\ nextId \in DOMAIN files
    /\ \E topic \in topics, content \in contents, tags \in taglists,
          difficulty \in difficulties, F \in FaultSets(faulty, 3) :
          \E r \in {Create(Store(F), nextId, topic, content, tags,
                            difficulty)} :
              /\ Commit(r.st)
              /\ last' = Call("create", nextId,
                              [topic |-> topic, content |-> content,
                               tags |-> tags, difficulty |-> difficulty],
                              r, NoPre)
              /\ scen' = IF r.exc # "none" THEN NoScen
                         ELSE [id |-> nextId, c |-> content, k |-> 0,
                               solo |-> \A i \in Ids :
                                           /\ files[i] = NoFile
                                           /\ index[i] = NoEntry]
    /\ nextId' = nextId + 1
    /\ UNCHANGED cfg

\* read(id, update_stats)
ReadAct(faulty) ==
    /\ calls < CallBound(faulty)
    /\ \E id \in Ids, update_stats \in BOOLEAN, F \in FaultSets(faulty, 1) :
          /\ update_stats /\ stats[id] # NoEntry
                => stats[id].access_count < MaxAccess
          /\ \E r \in {Read(Store(F), id, update_stats)} :
                /\ Commit(r.st)
                /\ last' = Call("read", id, update_stats, r, NoPre)
    /\ scen' = NoScen
    /\ UNCHANGED << nextId, cfg >>

\* the keyword arguments update is called with: content or difficulty ...
DataFields ==
    {[content |-> ShortText]} \cup {[difficulty |-> d] : d \in Difficulties}

\* ... or phase
UpdateFields == DataFields \cup {[phase |-> p] : p \in 0..3}

\* update(id, **fields) with fields drawn from Fields
UpdateAct(faulty, Fields) ==
    /\ calls < CallBound(faulty)
    /\ \E id \in Ids, fields \in Fields, F \in FaultSets(faulty, 2) :
          \E r \in {Update(Store(F), id, fields)} :
              /\ Commit(r.st)
              /\ last' = Call("update", id, fields, r, NoPre)
    /\ scen' = NoScen
    /\ UNCHANGED << nextId, cfg >>

\* delete(id, archive)
DeleteAct(faulty) ==
    /\ calls < CallBound(faulty)
    /\ \E id \in Ids, archive \in BOOLEAN, F \in FaultSets(faulty, 4) :
          \E r \in {Delete(Store(F), id, archive)} :
              /\ Commit(r.st)
              /\ last' = Call("delete", id, archive, r, NoPre)
    /\ scen' = NoScen
    /\ UNCHANGED << nextId, cfg >>

\* EvictionManager.run()
RunAct(faulty) ==
    /\ calls < CallBound(faulty)
    /\ \E F \in FaultSets(faulty, 5 * cfg.batch_size) :
          \E r \in {Run(Store(F), cfg)} :
              /\ Commit(r.st)
              /\ last' = Call("run", 0, 0, r, NoPre)
              /\ scen' = IF scen # NoScen /\ scen.k < 3 /\ F = {}
                         THEN [scen EXCEPT !.k = @ + 1]
                         ELSE NoScen
    /\ UNCHANGED << nextId, cfg >>

\* EvictionManager.restore_from_archive(id)
RestoreAct(faulty) ==
    /\ calls < CallBound(faulty)
    /\ \E id \in Ids, F \in FaultSets(faulty, 2) :
          \E r \in {RestoreFromArchive(Store(F), id)} :
              /\ Commit(r.st)
              /\ last' = Call("restore", id, 0, r,
                              [scen |-> scen,
                               phase |-> IF index[id] = NoEntry THEN 3
                                         ELSE index[id].phase])
    /\ scen' = NoScen
    /\ UNCHANGED << nextId, cfg >>

\* fix_integrity(archive_orphans, clean_orphaned_archives)
FixAct(faulty) ==
    /\ calls < CallBound(faulty)
    /\ \E archive_orphans \in BOOLEAN, clean \in BOOLEAN,
          F \in FaultSets(faulty, 3 * NumIds + 2) :
          \E r \in {FixIntegrity(Store(F), archive_orphans, clean)} :
              /\ Commit(r.st)
              /\ last' = Call("fix_integrity", 0,
                              [archive_orphans |-> archive_orphans,
                               clean_orphaned_archives |-> clean,
                               failed |-> F \cap (1..r.st.n)], r, NoPre)
    /\ scen' = NoScen
    /\ UNCHANGED << nextId, cfg >>

\* no write ever fails
Next ==
    \/ CreateAct(FALSE, {TopicPlain}, {<<>>}, Contents, Difficulties)
    \/ ReadAct(FALSE)
    \/ UpdateAct(FALSE, UpdateFields)
    \/ DeleteAct(FALSE)
    \/ RunAct(FALSE)
    \/ RestoreAct(FALSE)
    \/ FixAct(FALSE)

Spec == Init /\ [][Next]_vars

\* up to MaxFaults write attempts of every call fail
NextFault ==
    \/ CreateAct(TRUE, {TopicPlain}, {<<>>}, Contents, Difficulties)
    \/ ReadAct(TRUE)
    \/ UpdateAct(TRUE, UpdateFields)
    \/ DeleteAct(TRUE)
    \/ RunAct(TRUE)
    \/ RestoreAct(TRUE)
    \/ FixAct(TRUE)

SpecFault == Init /\ [][NextFault]_vars

\* create, update of content or difficulty, run and restore_from_archive
\* alone, with up to MaxFaults failing write attempts in every call
NextEvict ==
    \/ CreateAct(TRUE, {TopicPlain}, {<<>>}, Contents, Difficulties)
    \/ UpdateAct(TRUE, DataFields)
    \/ RunAct(TRUE)
    \/ RestoreAct(TRUE)

SpecEvict == Init /\ [][NextEvict]_vars

\* what check_integrity reports next, and whether the directory is healthy
\* now or after one fix_integrity() pass
Healthy == CheckIntegrity(Store({})).val.is_healthy
Repairable ==
    \/ Healthy
    \/ CheckIntegrity(FixIntegrity(Store({}), TRUE, FALSE).st).val.is_healthy

\* check_integrity()
CheckAct ==
    /\ calls < CallBound(FALSE)
    /\ \E r \in {CheckIntegrity(Store({}))} :
          /\ Commit(r.st)
          /\ last' = Call("check_integrity", 0, 0, r, NoPre)
    /\ scen' = NoScen
    /\ UNCHANGED << nextId, cfg >>

\* create interrupted after k of its three writes: the process is gone, and
\* the store that opens the directory next starts with empty caches
CrashCreateAct ==
    /\ calls < CallBound(FALSE)
    /\ nextId <= NumIds
    /\ \E content \in Contents, difficulty \in Difficulties, k \in 0..3 :
          \E r \in {Create(Store({k + 1}), nextId, TopicPlain, content,
                            <<>>, difficulty)} :
              /\ calls' = calls + 1
              /\ files' = r.st.files
              /\ archives' = r.st.archives
              /\ index' = r.st.index
              /\ stats' = r.st.stats
              /\ last' = [op |-> "crash_create", id |-> nextId,
                          arg |-> [k |-> k, content |-> content,
                                   difficulty |-> difficulty],
                          exc |-> "none", val |-> 0,
                          pre |-> [healthy |-> Healthy,
                                   repairable |-> Repairable,
                                   store |-> Store({})]]
    /\ icache' = NoCache
    /\ scache' = NoCache
    /\ nextId' = nextId + 1
    /\ scen' = NoScen
    /\ UNCHANGED << cfg, peer, proc >>

\* the record, index entry and stats entry a drifted directory holds for an
\* id: those create writes
DriftData(i) ==
    [id |-> i, topic |-> Str(TopicPlain), tags |-> ListV(<<>>), phase |-> 0,
     difficulty |-> 2, created_at |-> CreatedAt,
     created_session |-> SessionCount, content |-> LongText]
DriftEntry ==
    [topic |-> Str(TopicPlain), tags |-> ListV(<<>>), phase |-> 0,
     difficulty |-> 2, created_at |-> CreatedAt]
DriftStats ==
    [access_count |-> 0, last_session |-> SessionCount,
     priority |-> Calculate(2, [access_count |-> 0,
                                last_session |-> SessionCount],
                            SessionCount)]

\* a directory after crashes or external changes: of the ids handed out so
\* far, any may have a content file, an archive, an index entry and a stats
\* entry, independently; the store opening it has empty caches
InitDrift ==
    /\ nextId \in 1..(NumIds + 1)
    /\ \E PF \in SUBSET (1..(nextId - 1)), PA \in SUBSET (1..(nextId - 1)),
          PI \in SUBSET (1..(nextId - 1)), PS \in SUBSET (1..(nextId - 1)) :
          /\ files = [i \in Ids |->
                         IF i \in PF THEN RenderFile(DriftData(i))
                         ELSE NoFile]
          /\ archives = [i \in Ids |->
                            IF i \in PA THEN RenderFile(DriftData(i))
                            ELSE NoFile]
          /\ index = [i \in Ids |-> IF i \in PI THEN DriftEntry ELSE NoEntry]
          /\ stats = [i \in Ids |-> IF i \in PS THEN DriftStats ELSE NoEntry]
    /\ icache = NoCache
    /\ scache = NoCache
    /\ cfg \in Configs
    /\ calls = MaxCalls - MaxDriftCalls
    /\ last = [op |-> "init", id |-> 0, arg |-> 0, exc |-> "none",
               val |-> 0, pre |-> NoPre]
    /\ scen = NoScen
    /\ peer = FreshPeer
    /\ proc = NoProc

\* every call, with no failing write, on a directory that may have drifted
NextDrift ==
    \/ CreateAct(FALSE, {TopicPlain}, {<<>>}, Contents, Difficulties)
    \/ CrashCreateAct
    \/ ReadAct(FALSE)
    \/ UpdateAct(FALSE, DataFields)
    \/ DeleteAct(FALSE)
    \/ RunAct(FALSE)
    \/ RestoreAct(FALSE)
    \/ CheckAct
    \/ FixAct(FALSE)

SpecDrift == InitDrift /\ [][NextDrift]_vars

\* the keyword arguments update is called with when metadata varies: one
\* allowed field, or fields that are not allowed
PaddedText == << " ", "x", "\n" >>
MetaFields ==
    {[content |-> PaddedText],
     [topic |-> Str(TrueText)],
     [tags |-> ListV(<< TagGo >>)],
     [difficulty |-> 9],
     [phase |-> 1],
     [id |-> 0, created_at |-> << "u" >>, created_session |-> 2,
      accessed |-> 1]}

\* list(phase, tag, keyword, limit, offset)
ListAct ==
    /\ calls < CallBound(FALSE)
    /\ \E phase \in {NoArg, Given(1)},
          tag \in {NoArg, Given(TagPy)},
          keyword \in {NoArg, Given(<< "G", "O" >>)},
          limit \in 1..NumIds, offset \in 0..1 :
          \E r \in {ListFiltered(Store({}), phase, tag, keyword, limit,
                                  offset)} :
              /\ Commit(r.st)
              /\ last' = Call("list", 0,
                              [phase |-> phase, tag |-> tag,
                               keyword |-> keyword, limit |-> limit,
                               offset |-> offset], r, NoPre)
    /\ scen' = NoScen
    /\ UNCHANGED << nextId, cfg >>

InitMeta ==
    /\ Init
    /\ cfg = [max_memories |-> MaxCapacity, batch_size |-> MaxBatch]

\* create, read, update and list with varying topics, tags and filters,
\* with no failing write
NextMeta ==
    \/ CreateAct(FALSE, Topics, TagLists, {LongText},
                 Difficulties)
    \/ ReadAct(FALSE)
    \/ UpdateAct(FALSE, MetaFields)
    \/ ListAct

SpecMeta == InitMeta /\ [][NextMeta]_vars

\* the difficulties create and update are called with when the range
\* matters, in tenths: below 0, inside [0, 1] and above 1
WideDifficulties == {0 - 5, 5, 15}
RangeFields ==
    {[difficulty |-> d] : d \in WideDifficulties} \cup {[content |-> ShortText]}

\* create and update with any difficulty, with no failing write
NextRange ==
    \/ CreateAct(FALSE, {TopicPlain}, {<<>>}, {LongText}, WideDifficulties)
    \/ UpdateAct(FALSE, RangeFields)

SpecRange == Init /\ [][NextRange]_vars

\* the arguments the two scoring functions are called with: tool counts
\* below and above TOOL_COUNT_CAP, token counts below 0, 0, below and above
\* the cap, the caps 0 and 100, access counts below and above FREQUENCY_CAP
ToolCounts == {0, 5, 60}
TokenCounts == {0 - 3, 0, 50, 200}
TokenCaps == {0, 100}
AccessCounts == {0, 3, 12}
Sessions == 0..3

\* calculate_difficulty(tool_failures, tool_successes, compacted,
\* session_tokens, token_normalize_cap)
DifficultyAct ==
    /\ \E tool_failures \in ToolCounts, tool_successes \in ToolCounts,
          compacted \in BOOLEAN, session_tokens \in TokenCounts,
          token_normalize_cap \in TokenCaps :
          \E r \in {CalculateDifficulty(tool_failures, tool_successes,
                                        compacted, session_tokens,
                                        token_normalize_cap)} :
              last' = [op |-> "calculate_difficulty", id |-> 0,
                       arg |-> [tool_failures |-> tool_failures,
                                tool_successes |-> tool_successes,
                                compacted |-> compacted,
                                session_tokens |-> session_tokens,
                                token_normalize_cap |-> token_normalize_cap],
                       exc |-> r.exc, val |-> r.val, pre |-> NoPre]
    /\ UNCHANGED << files, archives, index, stats, icache, scache, nextId,
                    cfg, calls, scen, peer, proc >>

\* calculate(memory, stats, current_session), stats being None or a dict
PriorityAct ==
    /\ \E difficulty \in WideDifficulties,
          mem_stats \in {NoEntry} \cup [access_count : AccessCounts,
                                        last_session : Sessions],
          current_session \in Sessions :
          last' = [op |-> "calculate", id |-> 0,
                   arg |-> [difficulty |-> difficulty, stats |-> mem_stats,
                            current_session |-> current_session],
                   exc |-> "none",
                   val |-> Calculate(difficulty, mem_stats, current_session),
                   pre |-> NoPre]
    /\ UNCHANGED << files, archives, index, stats, icache, scache, nextId,
                    cfg, calls, scen, peer, proc >>

\* the two scoring functions on every combination of their arguments
NextScore ==
    \/ DifficultyAct
    \/ PriorityAct

SpecScore == InitMeta /\ [][NextScore]_vars

\* create with the id _generate_id returns: the first eight hex digits of
\* a hash of a random value and the time, any id of the id space, with no
\* test against the ids in use
GenerateCreateAct ==
    /\ calls < CallBound(FALSE)
    /\ \E memory_id \in Ids, content \in Contents,
          difficulty \in Difficulties :
          \E r \in {Create(Store({}), memory_id, TopicPlain, content, <<>>,
                            difficulty)} :
              /\ Commit(r.st)
              /\ last' = Call("create", memory_id,
                              [topic |-> TopicPlain, content |-> content,
                               tags |-> <<>>, difficulty |-> difficulty],
                              r, NoPre)
    /\ scen' = NoScen
    /\ UNCHANGED << nextId, cfg >>

\* create with generated ids, read, update and delete, with no failing write
NextIds ==
    \/ GenerateCreateAct
    \/ ReadAct(FALSE)
    \/ UpdateAct(FALSE, DataFields)
    \/ DeleteAct(FALSE)

SpecIds == InitMeta /\ [][NextIds]_vars

\* a second store instance on the same directory makes the next call: its
\* caches become the current ones, and the caches of the instance that
\* called so far are kept
SwitchAct ==
    /\ icache' = peer.icache
    /\ scache' = peer.scache
    /\ peer' = [icache |-> icache, scache |-> scache]
    /\ last' = [op |-> "switch", id |-> 0, arg |-> 0, exc |-> "none",
                val |-> 0, pre |-> NoPre]
    /\ scen' = NoScen
    /\ UNCHANGED << files, archives, index, stats, nextId, cfg, calls, proc >>

\* invalidate_cache()
InvalidateAct ==
    /\ \E S \in {InvalidateCache(Store({}))} :
          /\ icache' = S.icache
          /\ scache' = S.scache
    /\ last' = [op |-> "invalidate_cache", id |-> 0, arg |-> 0,
                exc |-> "none", val |-> 0, pre |-> NoPre]
    /\ scen' = NoScen
    /\ UNCHANGED << files, archives, index, stats, nextId, cfg, calls, peer,
                    proc >>

\* the ids of a directory in which one more record can be created
LockIds == 1..(NumIds + 1)

\* an empty directory with room for the ids of LockIds, opened by two
\* store instances
InitLock ==
    /\ files = [i \in LockIds |-> NoFile]
    /\ archives = [i \in LockIds |-> NoFile]
    /\ index = [i \in LockIds |-> NoEntry]
    /\ stats = [i \in LockIds |-> NoEntry]
    /\ icache = NoCache
    /\ scache = NoCache
    /\ nextId = 1
    /\ cfg = [max_memories |-> MaxCapacity, batch_size |-> MaxBatch]
    /\ calls = 0
    /\ last = [op |-> "init", id |-> 0, arg |-> 0, exc |-> "none",
               val |-> 0, pre |-> NoPre]
    /\ scen = NoScen
    /\ peer = FreshPeer
    /\ proc = NoProc

\* create calls of two store instances, one whole call after the other
NextLock ==
    \/ CreateAct(FALSE, {TopicPlain}, {<<>>}, Contents, Difficulties)
    \/ SwitchAct

SpecLock == InitLock /\ [][NextLock]_vars

\* calls of two store instances, one whole call after the other, each
\* preceded by invalidate_cache() on the instance that makes it
NextInval ==
    \/ SwitchAct
    \/ InvalidateAct
    \/ /\ last.op = "invalidate_cache"
       /\ CreateAct(FALSE, {TopicPlain}, {<<>>}, Contents, Difficulties)
    \/ /\ last.op = "invalidate_cache"
       /\ ReadAct(FALSE)
    \/ /\ last.op = "invalidate_cache"
       /\ UpdateAct(FALSE, DataFields)
    \/ /\ last.op = "invalidate_cache"
       /\ DeleteAct(FALSE)

SpecInval == InitMeta /\ [][NextInval]_vars

(***************************************************************************)
(* create, step by step, in two store instances on one directory.  The     *)
(* steps are the points at which the directory changes or is read: the     *)
(* creation of a temp file, the end of the writing into it, the rename     *)
(* onto the destination, and the loading of a catalog.                     *)
(***************************************************************************)
NumInsts == 2
Insts == 1..NumInsts

\* memory_data of create
MemoryData(id, topic, content, tags, difficulty) ==
    [id |-> id,
     topic |-> Str(topic),
     tags |-> ListV(tags),
     phase |-> 0,
     difficulty |-> Max(0, Min(DifficultyOne, difficulty)),
     created_at |-> CreatedAt,
     created_session |-> SessionCount,
     content |-> content]

\* the index entry create stores
IndexEntry(memory_data) ==
    [topic |-> memory_data.topic,
     tags |-> memory_data.tags,
     phase |-> 0,
     difficulty |-> memory_data.difficulty,
     created_at |-> CreatedAt]

\* the stats entry create stores
StatsEntry(memory_data) ==
    [access_count |-> 0,
     last_session |-> SessionCount,
     priority |-> Calculate(memory_data.difficulty,
                     [access_count |-> 0, last_session |-> SessionCount],
                     SessionCount)]

\* a catalog made of the new entry alone
PutEntryAlone(m, id, entry) ==
    [i \in DOMAIN m |-> IF i = id THEN entry ELSE NoEntry]

\* index["memories"][memory_id] = {...}, stats["memories"][memory_id] =
\* {...}: the entry is put into the dict that was read, the other entries
\* stay
PutEntry(m, id, entry) == [m EXCEPT ![id] = entry]

\* a store instance that has loaded nothing and is in no call
IdleInst ==
    [phase |-> "none", step |-> "idle", id |-> 0, data |-> NoFile,
     temp |-> NoFile, icache |-> NoCache, scache |-> NoCache,
     returned |-> {}]

\* a write that opens the destination itself: while it lasts the
\* destination holds a part of the data
OpenInPlace(torn, dest) == torn \cup {dest}

\* tempfile.mkstemp in the directory of the destination: the file that is
\* opened and written is a new one, the destination is not touched
OpenTemp(torn, dest) == torn

\* the temp file after mkstemp: nothing of `data` is in it yet
MkTemp(dest, data) == [dest |-> dest, complete |-> FALSE, data |-> data]

\* the temp file when the with-block has written and closed it
FillTemp(t) == [t EXCEPT !.complete = TRUE]

\* an except clause that leaves the temp file behind
CleanupKeepTemp(t) == t

\* the except clause of the atomic write: the temp file exists and is
\* unlinked
Cleanup(t) == NoFile

Step(p, kind, dest, id, exc, val) ==
    [op |-> "step", id |-> id,
     arg |-> [inst |-> p, kind |-> kind, dest |-> dest],
     exc |-> exc, val |-> val, pre |-> NoPre]

\* an empty directory opened by the store instances of Insts
InitConc ==
    /\ files = [i \in Ids |-> NoFile]
    /\ archives = [i \in Ids |-> NoFile]
    /\ index = [i \in Ids |-> NoEntry]
    /\ stats = [i \in Ids |-> NoEntry]
    /\ icache = NoCache
    /\ scache = NoCache
    /\ nextId = 1
    /\ cfg = [max_memories |-> MaxCapacity, batch_size |-> MaxBatch]
    /\ calls = 0
    /\ last = [op |-> "init", id |-> 0, arg |-> 0, exc |-> "none",
               val |-> 0, pre |-> NoPre]
    /\ scen = NoScen
    /\ peer = FreshPeer
    /\ proc = [inst |-> [p \in Insts |-> IdleInst], torn |-> {},
               faults |-> 0, overlap |-> FALSE]

\* instance p enters create: the id, memory_data, and the mkstemp of
\* _write_memory_file
BeginCreate(p) ==
    /\ calls < MaxCalls
    /\ nextId \in DOMAIN files
    /\ proc.inst[p].step = "idle"
    /\ \E content \in Contents, difficulty \in Difficulties :
          \E memory_data \in {MemoryData(nextId, TopicPlain, content, <<>>,
                                         difficulty)} :
              proc' = [proc EXCEPT
                  !.inst[p] = [@ EXCEPT
                      !.phase = "file", !.step = "temp", !.id = nextId,
                      !.data = memory_data,
                      !.temp = MkTemp("file", RenderFile(memory_data))],
                  !.torn = OpenTemp(@, "file"),
                  !.overlap = @ \/ \E q \in Insts \ {p} :
                                 proc.inst[q].step \notin {"idle", "crashed"}]
    /\ last' = Step(p, "begin", "file", nextId, "none", 0)
    /\ nextId' = nextId + 1
    /\ calls' = calls + 1
    /\ UNCHANGED << files, archives, index, stats, icache, scache, cfg, scen,
                    peer >>

\* the with-block of the atomic write ends: the temp file holds the data
FillStep(p) ==
    /\ proc.inst[p].step = "temp"
    /\ proc' = [proc EXCEPT !.inst[p].temp = FillTemp(@),
                            !.inst[p].step = "full"]
    /\ last' = Step(p, "fill", proc.inst[p].temp.dest, proc.inst[p].id,
                    "none", 0)
    /\ UNCHANGED << files, archives, index, stats, icache, scache, nextId,
                    cfg, calls, scen, peer >>

\* os.rename(temp_path, path): the destination is now what the temp file
\* held; _write_index and _write_stats then keep the data as the cache, and
\* create goes on to its next write or returns the id
RenameStep(p) ==
    /\ proc.inst[p].step = "full"
    /\ \E I \in {proc.inst[p]} :
          /\ files' = IF I.temp.dest = "file"
                      THEN [files EXCEPT ![I.id] = I.temp.data] ELSE files
          /\ index' = IF I.temp.dest = "index" THEN I.temp.data ELSE index
          /\ stats' = IF I.temp.dest = "stats" THEN I.temp.data ELSE stats
          /\ proc' = [proc EXCEPT
                !.torn = IF I.temp.complete THEN @ \ {I.temp.dest}
                         ELSE @ \cup {I.temp.dest},
                !.inst[p] =
                   IF I.phase = "file"
                   THEN [I EXCEPT !.temp = NoFile, !.phase = "index",
                                  !.step = "read"]
                   ELSE IF I.phase = "index"
                   THEN [I EXCEPT !.temp = NoFile, !.phase = "stats",
                                  !.step = "read",
                                  !.icache = Cached(I.temp.data)]
                   ELSE [I EXCEPT !.temp = NoFile, !.phase = "none",
                                  !.step = "idle",
                                  !.scache = Cached(I.temp.data),
                                  !.returned = @ \cup {I.id}]]
          /\ last' = Step(p, "rename", I.temp.dest, I.id, "none",
                          IF I.phase = "stats" THEN I.id ELSE 0)
    /\ UNCHANGED << archives, icache, scache, nextId, cfg, calls, scen,
                    peer >>

\* _read_index or _read_stats of create (the catalog is loaded unless it is
\* cached; a file that holds a part of a write does not parse), the new
\* entry put into the dict, and the mkstemp of the write that follows
LoadStep(p) ==
    /\ proc.inst[p].step = "read"
    /\ \E I \in {proc.inst[p]} :
       \E cache \in {IF I.phase = "index" THEN I.icache ELSE I.scache} :
          IF ~cache.loaded /\ I.phase \in proc.torn
          THEN /\ proc' = [proc EXCEPT !.inst[p].phase = "none",
                                       !.inst[p].step = "idle"]
               /\ last' = Step(p, "load", I.phase, I.id, "JSONDecodeError", 0)
          ELSE \E m \in {IF cache.loaded THEN cache.m
                         ELSE IF I.phase = "index" THEN index ELSE stats} :
               \E data \in {PutEntry(m, I.id,
                               IF I.phase = "index" THEN IndexEntry(I.data)
                               ELSE StatsEntry(I.data))} :
                  /\ proc' = [proc EXCEPT
                        !.torn = OpenTemp(@, I.phase),
                        !.inst[p] =
                           IF I.phase = "index"
                           THEN [I EXCEPT !.icache = Cached(data),
                                          !.temp = MkTemp("index", data),
                                          !.step = "temp"]
                           ELSE [I EXCEPT !.scache = Cached(data),
                                          !.temp = MkTemp("stats", data),
                                          !.step = "temp"]]
                  /\ last' = Step(p, "load", I.phase, I.id, "none", 0)
    /\ UNCHANGED << files, archives, index, stats, icache, scache, nextId,
                    cfg, calls, scen, peer >>

\* the writing into the temp file, or the rename, raises: the except clause
\* runs and the error leaves create
FailStep(p) ==
    /\ proc.inst[p].step \in {"temp", "full"}
    /\ proc.faults < MaxFaults
    /\ proc' = [proc EXCEPT !.inst[p].temp = Cleanup(@),
                            !.inst[p].phase = "none",
                            !.inst[p].step = "idle",
                            !.faults = @ + 1]
    /\ last' = Step(p, IF proc.inst[p].step = "temp" THEN "write_fails"
                       ELSE "rename_fails",
                    proc.inst[p].temp.dest, proc.inst[p].id, "OSError", 0)
    /\ UNCHANGED << files, archives, index, stats, icache, scache, nextId,
                    cfg, calls, scen, peer >>

\* the process of instance p dies inside create: what it holds in memory is
\* gone, its temp file stays
CrashStep(p) ==
    /\ proc.inst[p].step \notin {"idle", "crashed"}
    /\ \A q \in Insts : proc.inst[q].step # "crashed"
    /\ proc' = [proc EXCEPT !.inst[p].step = "crashed",
                            !.inst[p].icache = NoCache,
                            !.inst[p].scache = NoCache]
    /\ last' = Step(p, "crash", proc.inst[p].phase, proc.inst[p].id,
                    "none", 0)
    /\ UNCHANGED << files, archives, index, stats, icache, scache, nextId,
                    cfg, calls, scen, peer >>

\* create calls of the store instances, interleaved step by step, with no
\* lock
NextConc ==
    \E p \in Insts :
        \/ BeginCreate(p)
        \/ FillStep(p)
        \/ RenameStep(p)
        \/ LoadStep(p)
        \/ FailStep(p)
        \/ CrashStep(p)

SpecConc == InitConc /\ [][NextConc]_vars

\* check_integrity and fix_integrity on a directory that may have drifted,
\* with up to MaxFaults failing file operations in every pass
NextRepair ==
    \/ CheckAct
    \/ FixAct(TRUE)

SpecRepair == InitDrift /\ [][NextRepair]_vars

\* the queries search is called with: in the topic (in another case), in
\* the content only, nowhere
Queries == {<< "G", "O" >>, << "a", "l", "p" >>, << "z" >>}

\* search(query, limit)
SearchAct ==
    /\ calls < CallBound(FALSE)
    /\ \E query \in Queries, limit \in 1..NumIds :
          \E r \in {Search(Store({}), query, limit)} :
              /\ Commit(r.st)
              /\ last' = Call("search", 0,
                              [query |-> query, limit |-> limit], r, NoPre)
    /\ scen' = NoScen
    /\ UNCHANGED << nextId, cfg >>

\* list and search, and the calls that change what they show, on a
\* directory that may have drifted (index entries without stats entries)
NextQuery ==
    \/ ListAct
    \/ SearchAct
    \/ CreateAct(FALSE, {TopicPlain}, {<<>>}, Contents, Difficulties)
    \/ ReadAct(FALSE)

SpecQuery == InitDrift /\ [][NextQuery]_vars

\* a content with a Summary section and no Content section
SummaryOnlyText == SummaryHeader \o << "\n", "s" >>

\* the contents create is called with when the hint reduction matters: not
\* longer than hint_max_chars, longer, with both sections, with the Summary
\* section alone
HintContents == {ShortText, LongText, SectionText, SummaryOnlyText}

\* create and run, with no failing write
NextHint ==
    \/ CreateAct(FALSE, {TopicPlain}, {<<>>}, HintContents, {2})
    \/ RunAct(FALSE)

SpecHint == Init /\ [][NextHint]_vars

\* how many fix_integrity passes follow one another
MaxPasses == 3

\* fix_integrity(archive_orphans, clean_orphaned_archives) as one of a row
\* of passes with nothing in between; the row's results so far and the
\* clean_orphaned_archives of its last pass are remembered
FixPassAct ==
    /\ IF scen = NoScen THEN TRUE ELSE Len(scen.results) < MaxPasses
    /\ \E archive_orphans \in BOOLEAN, clean \in BOOLEAN :
          \E r \in {FixIntegrity(Store({}), archive_orphans, clean)} :
              /\ Commit(r.st)
              /\ last' = Call("fix_integrity", 0,
                              [archive_orphans |-> archive_orphans,
                               clean_orphaned_archives |-> clean,
                               failed |-> {}], r, NoPre)
              /\ scen' = [results |-> (IF scen = NoScen THEN <<>>
                                       ELSE scen.results) \o << r.val >>,
                          clean |-> clean]
    /\ UNCHANGED << nextId, cfg >>

\* fix_integrity passes in a row, with no failing file operation, on a
\* directory that may have drifted
NextConverge == FixPassAct

SpecConverge == InitDrift /\ [][NextConverge]_vars

\* an empty store directory and a MemoryStore that has loaded nothing
EmptyStore ==
    [files |-> [i \in Ids |-> NoFile], archives |-> [i \in Ids |-> NoFile],
     index |-> [i \in Ids |-> NoEntry], stats |-> [i \in Ids |-> NoEntry],
     icache |-> NoCache, scache |-> NoCache, n |-> 0, F |-> {}]

\* the stores that create and update build with n records: each record is
\* created and then left alone or given a phase by update(id, phase=p)
RECURSIVE BuiltStores(_)
BuiltStores(n) ==
    IF n = 0 THEN {[st |-> EmptyStore, calls |-> 0]}
    ELSE UNION
         {LET made == Create(b.st, n, TopicPlain, LongText, <<>>, d).st
          IN  {[st |-> made, calls |-> b.calls + 1]}
              \cup {[st |-> Update(made, n, [phase |-> p]).st,
                     calls |-> b.calls + 2] : p \in 1..3}
          : b \in BuiltStores(n - 1), d \in Difficulties}

\* the result of a run() call that found nothing to do
IdleRun ==
    [processed |-> 0, transitions |-> [t01 |-> 0, t12 |-> 0, t23 |-> 0],
     archived |-> 0, deleted |-> 0, raised |-> {}]

\* a store that create and update have built, before the first run()
InitCapacity ==
    /\ \E n \in 0..NumIds :
          \E b \in BuiltStores(n) :
              /\ files = b.st.files
              /\ archives = b.st.archives
              /\ index = b.st.index
              /\ stats = b.st.stats
              /\ icache = b.st.icache
              /\ scache = b.st.scache
              /\ nextId = n + 1
              /\ calls = b.calls
    /\ cfg \in Configs
    /\ last = [op |-> "init", id |-> 0, arg |-> 0, exc |-> "none",
               val |-> IdleRun, pre |-> NoPre]
    /\ scen = [running |-> FALSE, odd |-> FALSE]
    /\ peer = FreshPeer
    /\ proc = NoProc

\* whether the repeated run() calls have begun
Running == scen.running

\* 0 before the repeated calls, then 1 and 2 in turn
RunParity == IF Running THEN (IF scen.odd THEN 1 ELSE 2) ELSE 0

\* one more run() call has been made: the parity of the number of calls flips
CalledAgain ==
    scen' = [running |-> TRUE, odd |-> IF Running THEN ~scen.odd ELSE TRUE]

\* run() called again and again with nothing in between
RepeatRunAct ==
    /\ CalledAgain
    /\ \E r \in {Run(Store({}), cfg)} :
          /\ files' = r.st.files
          /\ archives' = r.st.archives
          /\ index' = r.st.index
          /\ stats' = r.st.stats
          /\ icache' = r.st.icache
          /\ scache' = r.st.scache
          /\ last' = Call("run", 0, 0, r, NoPre)
    /\ UNCHANGED << nextId, cfg, calls, peer, proc >>

\* on a store that create and update have built, run() is called repeatedly
\* and nothing else
NextCapacity == RepeatRunAct

\* the caller goes on calling for ever: a call can always be made, and the
\* only steps that flip the parity are run() calls
SpecCapacity == InitCapacity /\ [][NextCapacity]_vars /\ WF_RunParity(CalledAgain)

\* create with varying topics and tags, update of any field, run and
\* restore_from_archive, with no failing write
NextMirror ==
    \/ CreateAct(FALSE, Topics, TagLists, {LongText}, Difficulties)
    \/ UpdateAct(FALSE, MetaFields)
    \/ RunAct(FALSE)
    \/ RestoreAct(FALSE)

SpecMirror == Init /\ [][NextMirror]_vars

(***************************************************************************)
(* Properties.                                                             *)
(***************************************************************************)
IndexIds == {i \in Ids : index[i] # NoEntry}
StatsIds == {i \in Ids : stats[i] # NoEntry}
FileIds == {i \in Ids : files[i] # NoFile}
ArchiveIds == {i \in Ids : archives[i] # NoFile}

\* the batch the next run() works on, and the priority list() reports
NextBatch == RunBatch(Store({}), cfg)
NextBatchIds == {NextBatch[k].id : k \in 1..Len(NextBatch)}
Listed == List(Store({}), NumIds).val
ListedPriority(i) ==
    Listed[CHOOSE k \in 1..Len(Listed) : Listed[k].id = i].priority

\* C1: backup before discard.  A run() step never changes or removes the
\* content of a record unless the id has an archive file afterwards (under
\* create, update of content or difficulty, run and restore_from_archive,
\* with failing writes).
C1_BackupBeforeDiscard ==
    [][last'.op = "run" =>
          \A i \in FileIds :
              (\/ files'[i] = NoFile
               \/ ParseMemoryFile(files'[i]).content
                     # ParseMemoryFile(files[i]).content)
                  => archives'[i] # NoFile]_vars

C3_PhaseMonotone ==
    [][\A i \in IndexIds :
          index'[i] # NoEntry =>
              \/ index'[i].phase >= index[i].phase
              \/ /\ last'.op = "restore"
                 /\ last'.id = i
                 /\ index'[i].phase = 0]_vars

\* C4: restore from any state.  restore_from_archive(id) of an id that has
\* an archive returns true and leaves id active at phase 0 with the archived
\* content.
C4_RestoreFromAnyState ==
    (last.op = "restore" /\ last.id \in ArchiveIds) =>
        /\ last.val = TRUE
        /\ last.id \in FileIds
        /\ last.id \in IndexIds
        /\ index[last.id].phase = 0
        /\ files[last.id].phase = 0
        /\ ParseMemoryFile(files[last.id]).content
              = ParseMemoryFile(archives[last.id]).content

\* C5: restore round trip.  A record created with content c and then only
\* reduced by one or two run() calls (phase 1 or 2) is restored by
\* restore_from_archive: it returns true, the content read back is c
\* trimmed, and the phase is 0 in the content file and in the index.
C5_RestoreRoundTrip ==
    (/\ last.op = "restore"
     /\ last.pre.scen # NoScen
     /\ last.pre.scen.id = last.id
     /\ last.pre.scen.k \in {1, 2}
     /\ last.pre.phase \in {1, 2}) =>
        /\ last.val = TRUE
        /\ last.id \in FileIds
        /\ Read(Store({}), last.id, FALSE).val.content
              = Strip(last.pre.scen.c)
        /\ files[last.id].phase = 0
        /\ last.id \in IndexIds
        /\ index[last.id].phase = 0

\* C5 witness: a restore of a record created with a content that two run()
\* calls cut down to its abstract
C5_Witness ==
    /\ last.op = "restore"
    /\ last.pre.scen # NoScen
    /\ last.pre.scen.id = last.id
    /\ last.pre.scen.k = 2
    /\ last.pre.phase = 2
    /\ last.val = TRUE
    /\ Strip(last.pre.scen.c) # last.pre.scen.c

StatsOf(t01, t12, t23, archived, deleted) ==
    [processed |-> 1,
     transitions |-> [t01 |-> t01, t12 |-> t12, t23 |-> t23],
     archived |-> archived, deleted |-> deleted, raised |-> {}]

\* C6: three-run lifecycle.  With max_memories = 0 and batch_size = 1 and a
\* single record just created, the first run() does 0->1 and archives, the
\* second 1->2, the third 2->3 and deletes; after the third the id is absent
\* from index, stats and memories and its archive is still there.
C6_ThreeRunLifecycle ==
    (/\ cfg = [max_memories |-> 0, batch_size |-> 1]
     /\ scen # NoScen
     /\ scen.solo
     /\ last.op = "run") =>
        /\ scen.k = 1 =>
              /\ last.val = StatsOf(1, 0, 0, 1, 0)
              /\ index[scen.id].phase = 1
              /\ files[scen.id].phase = 1
        /\ scen.k = 2 =>
              /\ last.val = StatsOf(0, 1, 0, 0, 0)
              /\ index[scen.id].phase = 2
              /\ files[scen.id].phase = 2
        /\ scen.k = 3 =>
              /\ last.val = StatsOf(0, 0, 1, 0, 1)
              /\ scen.id \notin IndexIds
              /\ scen.id \notin StatsIds
              /\ scen.id \notin FileIds
              /\ scen.id \in ArchiveIds

\* C6 witness: the state after the third run()
C6_Witness ==
    /\ cfg = [max_memories |-> 0, batch_size |-> 1]
    /\ scen # NoScen
    /\ scen.solo
    /\ scen.k = 3
    /\ last.op = "run"
    /\ last.val.deleted = 1

\* C7: failure isolation.  run() does not raise, it counts as processed
\* exactly the records of the batch below phase 3 whose own processing did
\* not raise, and every such record is advanced by exactly one phase (removed
\* from the index at phase 2), whatever happened to the other records of the
\* batch.
C7_FailureIsolation ==
    [][last'.op = "run" =>
          /\ last'.exc = "none"
          /\ last'.val.processed =
                Cardinality({k \in 1..Len(NextBatch) :
                                /\ NextBatch[k].id \notin last'.val.raised
                                /\ NextBatch[k].phase < 3})
          /\ \A k \in 1..Len(NextBatch) :
                (/\ NextBatch[k].id \notin last'.val.raised
                 /\ NextBatch[k].phase < 3) =>
                    IF NextBatch[k].phase = 2
                    THEN index'[NextBatch[k].id] = NoEntry
                    ELSE /\ index'[NextBatch[k].id] # NoEntry
                         /\ index'[NextBatch[k].id].phase
                               = NextBatch[k].phase + 1]_vars

\* C7 witness: a run() in which the processing of one record raised and
\* another record was processed
C7_Witness ==
    /\ last.op = "run"
    /\ last.val.raised # {}
    /\ last.val.processed >= 1

\* C8: least valuable first.  Every record a run() processes has a priority
\* no higher than that of every active record it does not process.
C8_LeastValuableFirst ==
    [][last'.op = "run" =>
          \A b \in NextBatchIds : \A a \in IndexIds \ NextBatchIds :
              ListedPriority(b) <= ListedPriority(a)]_vars

\* C9: eviction is a no-op within capacity.  needs_eviction() is true
\* exactly when the index has more than max_memories entries, and a run()
\* made when it is false returns zero counters and leaves every content
\* file, archive file, index entry and stats entry as it was.
C9_NoOpWithinCapacity ==
    [][/\ NeedsEviction(Store({}), cfg).val
             = (Cardinality(IndexIds) > cfg.max_memories)
       /\ (last'.op = "run" /\ ~NeedsEviction(Store({}), cfg).val) =>
             /\ last'.val = ZeroStats
             /\ files' = files
             /\ archives' = archives
             /\ index' = index
             /\ stats' = stats]_vars

\* C9 witness: a run() on a store that holds a record and is within
\* capacity
C9_Witness ==
    /\ last.op = "run"
    /\ last.val = ZeroStats
    /\ IndexIds # {}
    /\ Cardinality(IndexIds) = cfg.max_memories

\* C10: steady-state health.  With no failing write, the stats ids are
\* among the index ids, the index ids are the ids with a content file, and
\* check_integrity reports is_healthy.
C10_SteadyStateHealth ==
    /\ StatsIds \subseteq IndexIds
    /\ IndexIds = FileIds
    /\ CheckIntegrity(Store({})).val.is_healthy

\* C10 witness: a delete that returned, with another record still active
C10_Witness ==
    /\ last.op = "delete"
    /\ last.val = TRUE
    /\ last.exc = "none"
    /\ FileIds # {}
    /\ ArchiveIds # {}

\* C11 as stated: after a fix_integrity() pass with no failing file
\* operation, from every combination of index ids, stats ids, content files
\* and archive files, the next check_integrity() reports is_healthy.
C11_PostRepairHealthAlways ==
    [][last'.op = "fix_integrity" => Healthy']_vars

\* C11: post-repair health.  After a fix_integrity() pass with no failing
\* file operation, the next check_integrity() reports is_healthy exactly
\* when, before the pass, no id with an index entry and no content file had
\* a stats entry (in particular whenever there was no missing file).
C11_PostRepairHealth ==
    [][last'.op = "fix_integrity" =>
          (Healthy' <=> (IndexIds \ FileIds) \cap StatsIds = {})]_vars

\* C11 witness: a pass that removed an orphaned file, the index entry of a
\* missing file and an orphaned stats entry, and left the directory healthy
C11_Witness ==
    /\ last.op = "fix_integrity"
    /\ last.val.removed_files >= 1
    /\ last.val.removed_index_entries >= 1
    /\ last.val.removed_stats_entries >= 1
    /\ Healthy

\* C12: crash inside create.  When create is interrupted after k of its
\* three writes on a directory that is healthy or repairable by one
\* fix_integrity() pass, the content files, the index and the stats are each
\* as they were or as the completed create leaves them (the content file
\* for k >= 1, the index for k >= 2, the stats for k = 3), and the directory
\* is again healthy or made healthy by one fix_integrity() pass.
C12_CrashInsideCreate ==
    (last.op = "crash_create" /\ last.pre.repairable) =>
        /\ \E done \in {Create(last.pre.store, last.id, TopicPlain,
                               last.arg.content, <<>>,
                               last.arg.difficulty).st} :
              /\ files = IF last.arg.k >= 1 THEN done.files
                         ELSE last.pre.store.files
              /\ index = IF last.arg.k >= 2 THEN done.index
                         ELSE last.pre.store.index
              /\ stats = IF last.arg.k >= 3 THEN done.stats
                         ELSE last.pre.store.stats
              /\ archives = last.pre.store.archives
        /\ Repairable

\* C12 witness: a create interrupted after its first write on a healthy
\* directory: the content file is orphaned, and one pass repairs it
C12_Witness ==
    /\ last.op = "crash_create"
    /\ last.arg.k = 1
    /\ last.pre.healthy
    /\ last.id \in FileIds \ IndexIds
    /\ ~Healthy
    /\ Repairable

\* C13: check_integrity reports orphaned_files = F \ I, missing_files =
\* I \ F, orphaned_stats = S \ I and orphaned_archives = (A \ I) \ F over
\* the index ids I, stats ids S, content-file ids F and archive ids A;
\* is_healthy is true exactly when the first three are empty; and no content
\* file, archive, index entry or stats entry changes.
C13_CheckIntegrityReport ==
    [][last'.op = "check_integrity" =>
          /\ last'.val.orphaned_files = FileIds \ IndexIds
          /\ last'.val.missing_files = IndexIds \ FileIds
          /\ last'.val.orphaned_stats = StatsIds \ IndexIds
          /\ last'.val.orphaned_archives = (ArchiveIds \ IndexIds) \ FileIds
          /\ last'.val.is_healthy = (/\ FileIds \ IndexIds = {}
                                     /\ IndexIds \ FileIds = {}
                                     /\ StatsIds \ IndexIds = {})
          /\ files' = files
          /\ archives' = archives
          /\ index' = index
          /\ stats' = stats]_vars

\* C13 witness: a check that reported an orphaned archive and is_healthy
C13_Witness ==
    /\ last.op = "check_integrity"
    /\ last.val.orphaned_archives # {}
    /\ last.val.is_healthy
    /\ IndexIds # {}

\* C14: archives are removed only by explicit cleanup.  Whenever a step
\* removes an archive file, the step is fix_integrity called with
\* clean_orphaned_archives = true and the id had neither an index entry nor a
\* content file; so every other call, and fix_integrity with the default
\* false, keeps every archive file.
C14_ArchivesRemovedOnlyByCleanup ==
    [][\A i \in Ids :
          (archives[i] # NoFile /\ archives'[i] = NoFile) =>
              /\ last'.op = "fix_integrity"
              /\ last'.arg.clean_orphaned_archives
              /\ i \notin IndexIds
              /\ i \notin FileIds]_vars

\* C14 witness: a cleaning pass that removed an orphaned archive and kept
\* the archive of an id that has an index entry or a content file
C14_Witness ==
    /\ last.op = "fix_integrity"
    /\ last.arg.clean_orphaned_archives
    /\ last.val.removed_orphaned_archives >= 1
    /\ ArchiveIds \cap (IndexIds \cup FileIds) # {}

\* C15: NotFound leaves the state unchanged.  read, update and delete called
\* with an id that has no content file fail with MemoryNotFoundError and
\* change no content file, archive, index entry or stats entry; called with
\* an id that has one they never fail with MemoryNotFoundError, whatever
\* write fails.
C15_NotFoundUnchanged ==
    [][last'.op \in {"read", "update", "delete"} =>
          IF files[last'.id] = NoFile
          THEN /\ last'.exc = "MemoryNotFoundError"
               /\ files' = files
               /\ archives' = archives
               /\ index' = index
               /\ stats' = stats
          ELSE last'.exc # "MemoryNotFoundError"]_vars

\* C15 witness: delete failed with MemoryNotFoundError on an id that has no
\* content file and still has an index entry
C15_Witness ==
    /\ last.op = "delete"
    /\ last.exc = "MemoryNotFoundError"
    /\ last.id \in IndexIds

\* C16: delete postcondition.  After delete(id, archive) on an id that has a
\* content file, with no failing write, the id has no content file, no index
\* entry and no stats entry, read(id) fails with MemoryNotFoundError, an
\* archive of the id exists exactly when archive was true or one existed
\* before, and the files and entries of every other id are unchanged.
C16_DeletePostcondition ==
    [][(last'.op = "delete" /\ files[last'.id] # NoFile) =>
          /\ last'.exc = "none"
          /\ files'[last'.id] = NoFile
          /\ index'[last'.id] = NoEntry
          /\ stats'[last'.id] = NoEntry
          /\ Read([files |-> files', archives |-> archives',
                   index |-> index', stats |-> stats', icache |-> icache',
                   scache |-> scache', n |-> 0, F |-> {}],
                  last'.id, TRUE).exc = "MemoryNotFoundError"
          /\ (archives'[last'.id] # NoFile) <=>
                (last'.arg \/ archives[last'.id] # NoFile)
          /\ \A j \in Ids \ {last'.id} :
                /\ files'[j] = files[j]
                /\ archives'[j] = archives[j]
                /\ index'[j] = index[j]
                /\ stats'[j] = stats[j]]_vars

\* C16 witness: delete(id, archive = true) removed a record that had both
\* catalog entries and no archive, while another record stays
C16_Witness ==
    /\ last.op = "delete"
    /\ last.exc = "none"
    /\ last.arg
    /\ last.id \in ArchiveIds
    /\ last.id \notin FileIds \cup IndexIds \cup StatsIds
    /\ FileIds \cap IndexIds \cap StatsIds # {}

\* C17: store round trip.  For every topic and content, read after
\* create(topic, content) returns the given topic and the given content
\* trimmed; and read after update(id, content = X) returns content X.
C17_StoreRoundTrip ==
    /\ (last.op = "create" /\ last.exc = "none") =>
          \E r \in {Read(Store({}), last.id, FALSE)} :
              /\ r.exc = "none"
              /\ r.val.topic = Str(last.arg.topic)
              /\ r.val.content = Strip(last.arg.content)
    /\ (last.op = "update" /\ last.exc = "none"
            /\ "content" \in DOMAIN last.arg) =>
          \E r \in {Read(Store({}), last.id, FALSE)} :
              /\ r.exc = "none"
              /\ r.val.content = last.arg.content

\* C18: access statistics.  read(id, update_stats = true) that succeeds
\* sets the id's access_count to one more than it was (0 when the id had no
\* stats entry) and its last_session to the current session, and changes no
\* other id's stats entry; read(id, update_stats = false) leaves the stats
\* catalog unchanged; a record just created has access_count 0.
C18_AccessStatistics ==
    [][/\ (last'.op = "read" /\ last'.exc = "none" /\ last'.arg) =>
              /\ stats'[last'.id] # NoEntry
              /\ stats'[last'.id].access_count =
                    (IF stats[last'.id] = NoEntry THEN 0
                     ELSE stats[last'.id].access_count) + 1
              /\ stats'[last'.id].last_session = SessionCount
              /\ \A j \in Ids \ {last'.id} : stats'[j] = stats[j]
       /\ (last'.op = "read" /\ ~last'.arg) => stats' = stats
       /\ (last'.op = "create" /\ last'.exc = "none") =>
              /\ stats'[last'.id] # NoEntry
              /\ stats'[last'.id].access_count = 0]_vars

\* C18 witness: the second counted read of a record, while another record
\* has never been read
C18_Witness ==
    /\ last.op = "read"
    /\ last.exc = "none"
    /\ last.arg
    /\ stats[last.id].access_count = 2
    /\ \E j \in StatsIds \ {last.id} : stats[j].access_count = 0

\* C19: update frame.  After update(id, fields) succeeds, the record read
\* from the content file differs from the one read before at most in the
\* fields among content, tags, phase, difficulty and topic that were passed:
\* id, created_at, created_session and every field not passed are the same,
\* fields outside the five are ignored; the index entry of id changes at
\* most in the passed fields; the stats entry of id, the archives and the
\* content file, index entry and stats entry of every other id are unchanged.
C19_UpdateFrame ==
    [][(last'.op = "update" /\ last'.exc = "none") =>
          /\ \E old \in {ParseMemoryFile(files[last'.id])},
                new \in {ParseMemoryFile(files'[last'.id])} :
                /\ DOMAIN new = DOMAIN old
                /\ \A k \in DOMAIN old :
                      \/ /\ k \in {"content", "tags", "phase", "difficulty",
                                   "topic"}
                         /\ k \in DOMAIN last'.arg
                      \/ new[k] = old[k]
          /\ index[last'.id] # NoEntry =>
                /\ index'[last'.id] # NoEntry
                /\ DOMAIN index'[last'.id] = DOMAIN index[last'.id]
                /\ \A k \in DOMAIN index[last'.id] :
                      \/ /\ k \in {"tags", "phase", "difficulty", "topic"}
                         /\ k \in DOMAIN last'.arg
                      \/ index'[last'.id][k] = index[last'.id][k]
          /\ index[last'.id] = NoEntry => index'[last'.id] = NoEntry
          /\ stats'[last'.id] = stats[last'.id]
          /\ archives' = archives
          /\ \A j \in Ids \ {last'.id} :
                /\ files'[j] = files[j]
                /\ index'[j] = index[j]
                /\ stats'[j] = stats[j]]_vars

\* C19 witness: an update that passed only fields outside the five (id,
\* created_at, created_session, accessed) to a record that has been read,
\* next to another record
C19_Witness ==
    /\ last.op = "update"
    /\ last.exc = "none"
    /\ "created_session" \in DOMAIN last.arg
    /\ files[last.id].id = last.id
    /\ files[last.id].created_session = SessionCount
    /\ stats[last.id].access_count >= 1
    /\ FileIds \ {last.id} # {}

\* the ids whose index entry passes the filters of the list call just made,
\* the priority list reports for an id, and the position of an id among
\* them from the highest priority to the lowest (equal priorities in index
\* order)
ListPassing ==
    {i \in IndexIds :
        /\ last.arg.phase.given => index[i].phase = last.arg.phase.v
        /\ last.arg.tag.given =>
              \E k \in 1..Len(index[i].tags.items) :
                  index[i].tags.items[k] = last.arg.tag.v
        /\ last.arg.keyword.given =>
              Contains(Lower(index[i].topic.text), Lower(last.arg.keyword.v))}
ListPriority(i) ==
    IF stats[i] # NoEntry THEN stats[i].priority
    ELSE Calculate(index[i].difficulty, NoEntry, SessionCount)
ListRank(i) ==
    Cardinality({j \in ListPassing :
                    \/ ListPriority(j) > ListPriority(i)
                    \/ ListPriority(j) = ListPriority(i) /\ j < i})

\* list returned the passing entries at positions offset..offset+limit-1 of
\* the order by priority, highest first, and consecutive pages make up the
\* longer page
ListPage ==
    /\ Len(last.val) = Max(0, Min(last.arg.limit,
                                  Cardinality(ListPassing) - last.arg.offset))
    /\ \A k \in 1..Len(last.val) :
          /\ last.val[k].id \in ListPassing
          /\ ListRank(last.val[k].id) = last.arg.offset + k - 1
          /\ last.val[k].priority = ListPriority(last.val[k].id)
          /\ last.val[k].difficulty = index[last.val[k].id].difficulty
    /\ \A k \in 1..(Len(last.val) - 1) :
          last.val[k].priority >= last.val[k + 1].priority
    /\ \A n \in 1..NumIds :
          ListFiltered(Store({}), last.arg.phase, last.arg.tag,
                       last.arg.keyword, n, 0).val
            \o ListFiltered(Store({}), last.arg.phase, last.arg.tag,
                            last.arg.keyword, n, n).val
          = ListFiltered(Store({}), last.arg.phase, last.arg.tag,
                         last.arg.keyword, 2 * n, 0).val

\* C20: list semantics.  list(phase, tag, keyword, limit, offset) returns
\* exactly the index entries that pass every given filter, from the highest
\* priority to the lowest, at positions offset..offset+limit-1; consecutive
\* pages neither repeat nor omit a record; and of two returned records that
\* were created in the same session and never read, the one listed first
\* has the higher or the same difficulty.
C20_ListSemantics ==
    last.op = "list" =>
        /\ ListPage
        /\ \A k1, k2 \in 1..Len(last.val) :
              (/\ k1 < k2
               /\ last.val[k1].access_count = 0
               /\ last.val[k2].access_count = 0) =>
                  last.val[k1].difficulty >= last.val[k2].difficulty

\* the records of the batch at phase p whose processing did not raise in
\* the run() call just made
Completed(p, raised) ==
    Cardinality({k \in 1..Len(NextBatch) :
                    /\ NextBatch[k].phase = p
                    /\ NextBatch[k].id \notin raised})

\* C30: failed records are not counted.  The counters run() returns come
\* from the records whose processing did not raise alone: processed is their
\* number, each phase transition counter is the number of them at that
\* phase, deleted is the number of them at phase 2, and archived counts only
\* records whose 0->1 transition completed.
C30_FailedNotCounted ==
    [][last'.op = "run" =>
          /\ last'.val.processed = Completed(0, last'.val.raised)
                                   + Completed(1, last'.val.raised)
                                   + Completed(2, last'.val.raised)
          /\ last'.val.transitions.t01 = Completed(0, last'.val.raised)
          /\ last'.val.transitions.t12 = Completed(1, last'.val.raised)
          /\ last'.val.transitions.t23 = Completed(2, last'.val.raised)
          /\ last'.val.deleted = Completed(2, last'.val.raised)
          /\ last'.val.archived <= last'.val.transitions.t01]_vars

\* C28: difficulty stays in range.  After any sequence of create and update
\* calls, with any difficulty argument, the difficulty in every index entry
\* and in every content file lies in [0, 1].
C28_DifficultyInRange ==
    \A i \in Ids :
        /\ index[i] # NoEntry =>
              /\ index[i].difficulty >= 0
              /\ index[i].difficulty <= DifficultyOne
        /\ files[i] # NoFile =>
              /\ ParseMemoryFile(files[i]).difficulty >= 0
              /\ ParseMemoryFile(files[i]).difficulty <= DifficultyOne

\* C26: score range.  For every difficulty, access count, last and current
\* session, calculate() returns a value in [0, 1]; for every failure and
\* success count, compaction flag, token count and token cap, 0 included,
\* calculate_difficulty() returns a value in [0, 1].
C26_ScoreRange ==
    /\ last.op = "calculate" =>
          /\ last.exc = "none"
          /\ last.val >= 0
          /\ last.val <= PriorityOne
    /\ last.op = "calculate_difficulty" =>
          /\ last.exc = "none"
          /\ FracLeq(FracZero, last.val)
          /\ FracLeq(last.val, FracOne)

\* what the formula with the weights w gives for the calculate_difficulty
\* call just made; w.tokens is 0 for the formula without token usage
WeightedDifficulty(w) ==
    LET a == last.arg
        total == a.tool_failures + a.tool_successes
        rate == IF total = 0 THEN FracZero ELSE Frac(a.tool_failures, total)
        tools == IF total = 0 THEN FracZero
                 ELSE Frac(Min(ToolCountCap, total), ToolCountCap)
        tokens == IF w.tokens = 0 THEN FracZero
                  ELSE Frac(Min(a.token_normalize_cap, a.session_tokens),
                            a.token_normalize_cap)
        part(weight, x) == Frac(weight * x.n, 100 * x.d)
    IN  FracAdd(FracAdd(part(w.failure, rate), part(w.tools, tools)),
                FracAdd(part(w.tokens, tokens),
                        IF a.compacted THEN Frac(w.compaction, 100)
                        ELSE FracZero))

\* C27: dual difficulty formula.  When calculate_difficulty returns, its
\* value is 0.25 failure rate + 0.15 tool count over 50 + 0.35 tokens over
\* cap + 0.25 compaction exactly when session_tokens > 0, and 0.5 failure
\* rate + 0.3 tool count over 50 + 0.2 compaction otherwise, with failure
\* rate and tool count 0 when there were no tool calls; 5 failures, 5
\* successes, not compacted, 0 tokens gives 0.31.
C27_DualDifficultyFormula ==
    (last.op = "calculate_difficulty" /\ last.exc = "none") =>
        /\ last.val =
              IF last.arg.session_tokens > 0
              THEN WeightedDifficulty([failure |-> 25, tools |-> 15,
                                       tokens |-> 35, compaction |-> 25])
              ELSE WeightedDifficulty([failure |-> 50, tools |-> 30,
                                       tokens |-> 0, compaction |-> 20])
        /\ (/\ last.arg.tool_failures = 5
            /\ last.arg.tool_successes = 5
            /\ ~last.arg.compacted
            /\ last.arg.session_tokens = 0) => last.val = Frac(31, 100)

\* C27 witness: 5 failures, 5 successes, not compacted, 0 tokens gave 0.31
C27_Witness ==
    /\ last.op = "calculate_difficulty"
    /\ last.arg.tool_failures = 5
    /\ last.arg.tool_successes = 5
    /\ ~last.arg.compacted
    /\ last.arg.session_tokens = 0
    /\ last.val = Frac(31, 100)

\* C29: ids are never reused.  The id a create returns has, when the call
\* is made, no index entry, no content file and no archive; so no create
\* changes the content file or the index entry of an existing record, and
\* no existing archive comes to belong to the new record.
C29_IdsNeverReused ==
    [][(last'.op = "create" /\ last'.exc = "none") =>
          /\ index[last'.id] = NoEntry
          /\ files[last'.id] = NoFile
          /\ archives[last'.id] = NoFile
          /\ \A i \in Ids :
                /\ files[i] # NoFile => files'[i] = files[i]
                /\ index[i] # NoEntry => index'[i] = index[i]]_vars

\* what check_integrity reports on a store instance opened now
FreshHealthy ==
    CheckIntegrity([Store({}) EXCEPT !.icache = NoCache,
                                     !.scache = NoCache]).val.is_healthy

\* C24: external lock suffices.  When the calls of two store instances on
\* one directory never overlap and are create calls only, every id a create
\* returned is in the index on disk and check_integrity on a fresh instance
\* reports is_healthy.
C24_ExternalLockSuffices ==
    /\ \A i \in 1..(nextId - 1) : index[i] # NoEntry
    /\ FreshHealthy

\* C25: explicit invalidation.  When the calls of two store instances on
\* one directory never overlap and each is preceded by invalidate_cache()
\* on its instance, every call leaves the instance's loaded catalogs equal
\* to the ones on disk, changes the index and stats entries of no id but its
\* own, a create leaves its id in the index on disk, and check_integrity on
\* a fresh instance reports is_healthy after every call.
C25_ExplicitInvalidation ==
    [][last'.op \in {"create", "read", "update", "delete"} =>
          /\ icache'.loaded => icache'.m = index'
          /\ scache'.loaded => scache'.m = stats'
          /\ \A j \in Ids \ {last'.id} :
                /\ index'[j] = index[j]
                /\ stats'[j] = stats[j]
          /\ last'.op = "create" => index'[last'.id] # NoEntry
          /\ FreshHealthy']_vars

\* C25 witness: a counted read of the first record by an instance whose
\* peer has created the second record since
C25_Witness ==
    /\ last.op = "read"
    /\ last.arg
    /\ last.exc = "none"
    /\ last.id = 1
    /\ stats[1].access_count = 1
    /\ stats[2] # NoEntry
    /\ index[2] # NoEntry
    /\ peer.icache.loaded
    /\ peer.icache.m[2] # NoEntry
    /\ peer.scache.m[1].access_count = 0

\* C21: failed atomic write.  When the rename of an atomic write of a
\* content file or a catalog fails, the error leaves the call (create
\* returns no id), the temp file of the write is removed, and the content
\* files, the index and the stats on disk are what they were.
C21_FailedAtomicWrite ==
    [][(last'.op = "step" /\ last'.arg.kind = "rename_fails") =>
          /\ last'.exc = "OSError"
          /\ last'.val = 0
          /\ proc.inst[last'.arg.inst].temp # NoFile
          /\ proc'.inst[last'.arg.inst].temp = NoFile
          /\ proc'.inst[last'.arg.inst].step = "idle"
          /\ proc'.inst[last'.arg.inst].returned
                = proc.inst[last'.arg.inst].returned
          /\ files' = files
          /\ index' = index
          /\ stats' = stats
          /\ proc'.torn = proc.torn]_vars

\* C21 witness: the rename onto index.json failed while index.json held the
\* entry of an earlier create, and that entry is still the whole index
C21_Witness ==
    /\ last.op = "step"
    /\ last.arg.kind = "rename_fails"
    /\ last.arg.dest = "index"
    /\ last.id = 2
    /\ index[1] # NoEntry
    /\ index[2] = NoEntry
    /\ files[2] # NoFile
    /\ proc.inst[last.arg.inst].temp = NoFile

\* C22: no partial reads.  No step of a writer leaves a content file,
\* index.json or stats.json holding a part of a write: each of them is
\* after every step what it was before or the whole data the writer of the
\* step was writing; a catalog that an instance loads while another writes
\* it parses and is the file's version of that moment; a writer that dies
\* before its rename leaves every destination as it was.
C22_NoPartialReads ==
    [][last'.op = "step" =>
          /\ proc'.torn = {}
          /\ \A i \in DOMAIN files :
                \/ files'[i] = files[i]
                \/ /\ proc.inst[last'.arg.inst].temp # NoFile
                   /\ proc.inst[last'.arg.inst].temp.complete
                   /\ proc.inst[last'.arg.inst].temp.dest = "file"
                   /\ proc.inst[last'.arg.inst].id = i
                   /\ files'[i] = proc.inst[last'.arg.inst].temp.data
          /\ \/ index' = index
             \/ /\ proc.inst[last'.arg.inst].temp # NoFile
                /\ proc.inst[last'.arg.inst].temp.complete
                /\ proc.inst[last'.arg.inst].temp.dest = "index"
                /\ index' = proc.inst[last'.arg.inst].temp.data
          /\ \/ stats' = stats
             \/ /\ proc.inst[last'.arg.inst].temp # NoFile
                /\ proc.inst[last'.arg.inst].temp.complete
                /\ proc.inst[last'.arg.inst].temp.dest = "stats"
                /\ stats' = proc.inst[last'.arg.inst].temp.data
          /\ last'.arg.kind = "load" =>
                /\ last'.exc = "none"
                /\ (last'.arg.dest = "index"
                      /\ ~proc.inst[last'.arg.inst].icache.loaded) =>
                       proc'.inst[last'.arg.inst].icache.m
                          = [index EXCEPT ![last'.id] =
                               proc'.inst[last'.arg.inst].icache.m[last'.id]]
                /\ (last'.arg.dest = "stats"
                      /\ ~proc.inst[last'.arg.inst].scache.loaded) =>
                       proc'.inst[last'.arg.inst].scache.m
                          = [stats EXCEPT ![last'.id] =
                               proc'.inst[last'.arg.inst].scache.m[last'.id]]
          /\ last'.arg.kind = "crash" =>
                /\ files' = files
                /\ index' = index
                /\ stats' = stats]_vars

\* C22 witness: an instance has loaded index.json while the other instance
\* was writing it (the writer's temp file exists, its rename has not
\* happened), and got the previous version
C22_Witness ==
    /\ last.op = "step"
    /\ last.arg.kind = "load"
    /\ last.arg.dest = "index"
    /\ last.exc = "none"
    /\ \E q \in Insts \ {last.arg.inst} :
          /\ proc.inst[q].step \in {"temp", "full"}
          /\ proc.inst[q].temp.dest = "index"
          /\ proc.inst[q].temp.data # index
          /\ proc.inst[last.arg.inst].icache.m[proc.inst[q].id] = NoEntry

\* C22 witness of the crash: the writer of index.json died before its
\* rename, its temp file is left and index.json is the previous version
C22_CrashWitness ==
    /\ last.op = "step"
    /\ last.arg.kind = "crash"
    /\ last.arg.dest = "index"
    /\ proc.inst[last.arg.inst].temp # NoFile
    /\ index[last.id] = NoEntry

\* the ids the create calls returned
Returned == UNION {proc.inst[p].returned : p \in Insts}

\* C23: no mutual exclusion across instances.  An id that a create returned
\* and that the index on disk does not hold is the id of a content file
\* that is left orphaned (check_integrity of a fresh instance reports it),
\* and this needs two instances: the ids returned while only one instance
\* has made calls are all in the index.  (That such a state is reached by
\* two overlapping creates is the witness.)
C23_LostUpdate ==
    /\ \A i \in Returned :
          index[i] = NoEntry =>
             /\ files[i] # NoFile
             /\ i \in CheckIntegrity([Store({}) EXCEPT
                                        !.icache = NoCache,
                                        !.scache = NoCache]).val.orphaned_files
    /\ (\E p \in Insts :
           \A q \in Insts \ {p} :
              proc.inst[q] = IdleInst) =>
          \A i \in Returned : index[i] # NoEntry

\* C23 witness: two creates overlapped, both returned an id, and the index
\* on disk holds one of the two ids
C23_Witness ==
    /\ proc.overlap
    /\ \A p \in Insts : proc.inst[p].step = "idle"
    /\ proc.inst[1].returned = {1}
    /\ proc.inst[2].returned = {2}
    /\ index[1] = NoEntry
    /\ index[2] # NoEntry
    /\ files[1] # NoFile
    /\ proc.faults = 0

\* the orphaned files check_integrity reports now
OrphanedFiles == CheckIntegrity(Store({})).val.orphaned_files

\* C31: soft failures in repair.  A fix_integrity pass in which the copy of
\* an orphaned file into the archives or the removal of a file fails goes
\* on with the remaining items: every orphaned file is afterwards removed or
\* exactly as it was, every archive the pass was to make is the file's
\* content or absent, and what was neither made nor removed is accounted
\* for by a failed attempt; archived_files and removed_files count the
\* archives made and the files removed, no more; with one failed attempt in
\* the pass, an orphan whose archive could not be made is removed, and a
\* file that could not be removed stays and is not counted.
C31_SoftFailuresInRepair ==
    [][last'.op = "fix_integrity" =>
          /\ \A i \in OrphanedFiles :
                /\ files'[i] = NoFile \/ files'[i] = files[i]
                /\ (last'.arg.archive_orphans /\ archives[i] = NoFile) =>
                      archives'[i] = NoFile \/ archives'[i] = files[i]
          /\ \A i \in Ids \ OrphanedFiles : files'[i] = files[i]
          /\ last'.val.removed_files
                = Cardinality({i \in OrphanedFiles : files'[i] = NoFile})
          /\ last'.val.archived_files
                = Cardinality({i \in OrphanedFiles :
                                  /\ last'.arg.archive_orphans
                                  /\ archives[i] = NoFile
                                  /\ archives'[i] = files[i]})
          /\ Cardinality({i \in OrphanedFiles : files'[i] # NoFile})
                + Cardinality({i \in OrphanedFiles :
                                  /\ last'.arg.archive_orphans
                                  /\ archives[i] = NoFile
                                  /\ archives'[i] = NoFile})
                <= Cardinality(last'.arg.failed)
          /\ Cardinality({i \in OrphanedFiles : files'[i] # NoFile})
                + Cardinality({i \in OrphanedFiles :
                                  /\ last'.arg.archive_orphans
                                  /\ archives[i] = NoFile
                                  /\ archives'[i] = NoFile})
                = Cardinality(last'.arg.failed) => last'.exc = "none"]_vars

\* C31 witness: a pass in which the archive of an orphaned file could not be
\* made: the file is removed, no archive exists, archived_files is 0 and
\* removed_files is 1
C31_Witness ==
    /\ last.op = "fix_integrity"
    /\ last.exc = "none"
    /\ last.arg.archive_orphans
    /\ last.arg.failed # {}
    /\ last.val.archived_files = 0
    /\ last.val.removed_files = 1
    /\ \E i \in Ids : files[i] = NoFile /\ archives[i] = NoFile
                         /\ index[i] = NoEntry /\ i < nextId

\* C31 witness of a failed removal: the orphaned file was archived, could
\* not be removed, stays and is not counted
C31_RemoveWitness ==
    /\ last.op = "fix_integrity"
    /\ last.exc = "none"
    /\ last.arg.failed # {}
    /\ last.val.archived_files = 1
    /\ last.val.removed_files = 0
    /\ \E i \in Ids : files[i] # NoFile /\ archives[i] = files[i]
                         /\ index[i] = NoEntry

\* C32: listing and searching are read-only.  list and search change no
\* content file, archive, index entry or stats entry; for an index entry
\* without a stats entry the priority they report is the one calculate gives
\* for the entry with no statistics, and no stats entry is made for it, on
\* disk or in the cached stats.
C32_QueriesReadOnly ==
    [][last'.op \in {"list", "search"} =>
          /\ files' = files
          /\ archives' = archives
          /\ index' = index
          /\ stats' = stats
          /\ scache'.loaded
          /\ \A k \in 1..Len(last'.val) :
                stats[last'.val[k].id] = NoEntry =>
                   /\ last'.val[k].priority
                         = Calculate(index[last'.val[k].id].difficulty,
                                     NoEntry, SessionCount)
                   /\ stats'[last'.val[k].id] = NoEntry
                   /\ scache'.m[last'.val[k].id] = NoEntry]_vars

\* C32 witness: a search that matched, by its content only, a record whose
\* index entry has no stats entry
C32_Witness ==
    /\ last.op = "search"
    /\ last.arg.query = << "a", "l", "p" >>
    /\ Len(last.val) >= 1
    /\ stats[last.val[1].id] = NoEntry
    /\ scache.m[last.val[1].id] = NoEntry

\* C32 witness for list: a listed record whose index entry has no stats
\* entry
C32_ListWitness ==
    /\ last.op = "list"
    /\ Len(last.val) >= 1
    /\ stats[last.val[1].id] = NoEntry
    /\ scache.m[last.val[1].id] = NoEntry

\* whether a content consists of a Summary section followed by a Content
\* section
HasBothSections(content) ==
    /\ Find(content, SummaryHeader) # 0
    /\ Find(content, ContentHeader) > Find(content, SummaryHeader)

\* the content a 0 -> 1 transition is to leave, as the hint reduction is
\* described: the Summary portion and the marker for a content with both
\* sections, the content itself when it is not longer than hint_max_chars,
\* its first hint_max_chars characters, the ellipsis and the marker otherwise
DescribedHint(content) ==
    IF HasBothSections(content)
    THEN Strip(SplitFirst(content, ContentHeader)) \o HintMarker
    ELSE IF Len(content) <= HintMaxChars THEN content
    ELSE Strip(Take(content, HintMaxChars) \o Ellipsis \o HintMarker)

\* C33: hint reduction keeps short content.  When run() moves a record from
\* phase 0 to 1, a content without the two sections that is not longer than
\* hint_max_chars is left unchanged, the marker is appended only when
\* characters were cut, and only a content with both sections is cut down
\* to its Summary portion.
C33_HintKeepsShortContent ==
    [][last'.op = "run" =>
          \A i \in Ids :
             (/\ index[i] # NoEntry
              /\ index[i].phase = 0
              /\ files[i] # NoFile
              /\ index'[i] # NoEntry
              /\ index'[i].phase = 1
              /\ files'[i] # NoFile) =>
                ParseMemoryFile(files'[i]).content
                   = DescribedHint(ParseMemoryFile(files[i]).content)]_vars

\* the ids a step takes from phase 0 to phase 1
Reduced01 ==
    {i \in Ids : /\ index[i] # NoEntry
                 /\ index[i].phase = 0
                 /\ files[i] # NoFile
                 /\ index'[i] # NoEntry
                 /\ index'[i].phase = 1}

C35_RepairConverges ==
    [][last'.op = "fix_integrity" =>
          /\ Len(scen'.results) >= 2 => Healthy'
          /\ (/\ scen # NoScen
              /\ Len(scen.results) >= 2
              /\ last'.arg.clean_orphaned_archives => scen.clean) =>
                /\ last'.val = ZeroFix
                /\ last'.exc = "none"
                /\ files' = files
                /\ archives' = archives
                /\ index' = index
                /\ stats' = stats]_vars

\* C35 witness: three passes with the default arguments, of which the
\* first and the second repaired something and the third nothing
C35_Witness ==
    /\ last.op = "fix_integrity"
    /\ last.arg.archive_orphans
    /\ ~last.arg.clean_orphaned_archives
    /\ scen # NoScen
    /\ Len(scen.results) = 3
    /\ scen.results[1].removed_index_entries > 0
    /\ scen.results[2].removed_stats_entries > 0
    /\ scen.results[3] = ZeroFix
    /\ Healthy

\* C36: eviction eventually restores capacity.  Once run() is called
\* repeatedly with nothing in between, a state where needs_eviction() is
\* false is reached, and every call processes at most batch_size records.
C36_EvictionRestoresCapacity ==
    /\ [](Running => <>(~NeedsEviction(Store({}), cfg).val))
    /\ [](last.op = "run" => last.val.processed <= cfg.batch_size)

\* C37: within one store instance, whenever the index cache or the stats
\* cache is populated it equals what index.json or stats.json holds on disk,
\* also after an operation whose catalog write failed
C37_CacheCoherence ==
    /\ icache.loaded => icache.m = index
    /\ scache.loaded => scache.m = stats

\* whether the metadata block of id's content file holds what
\* _write_memory_file writes for the values of id's index entry
Mirrors(id) ==
    /\ files[id].phase = index[id].phase
    /\ files[id].topic = RenderField(index[id].topic)
    /\ files[id].tags = RenderField(index[id].tags)
    /\ files[id].difficulty = index[id].difficulty

\* C38: after any sequence of create, update, run and restore_from_archive
\* calls without failure, the phase, topic, tags and difficulty of every
\* active id's index entry equal those in the metadata block of its file
C38_IndexMirrorsFile ==
    \A id \in Ids :
        (index[id] # NoEntry /\ files[id] # NoFile) => Mirrors(id)

\* whether a step left id's record as it was but for content and phase: the
\* record read from the file and the index entry are the same in every
\* other field, and the stats entry is the same
OnlyContentAndPhase(id) ==
    /\ files'[id] # NoFile
    /\ [ParseMemoryFile(files'[id])
            EXCEPT !.content = ParseMemoryFile(files[id]).content,
                   !.phase = ParseMemoryFile(files[id]).phase]
          = ParseMemoryFile(files[id])
    /\ index'[id] # NoEntry
    /\ [index'[id] EXCEPT !.phase = index[id].phase] = index[id]
    /\ stats'[id] = stats[id]

\* whether a step removed id's record: file, index entry and stats entry
Removed(id) ==
    /\ files'[id] = NoFile
    /\ index'[id] = NoEntry
    /\ stats'[id] = NoEntry

\* whether a step left id's file, index entry and stats entry alone
Untouched(id) ==
    /\ files'[id] = files[id]
    /\ index'[id] = index[id]
    /\ stats'[id] = stats[id]

\* C39: eviction does not count as access.  run() and restore_from_archive
\* change no access_count, last_session or stored priority and no topic,
\* tags or difficulty; run() changes only the content and phase of records
\* of its batch, or removes them when their phase was 2;
\* restore_from_archive changes only the content and phase of its record.
C39_EvictionIsNoAccess ==
    [][/\ last'.op = "run" =>
              \A id \in Ids :
                  \/ Untouched(id)
                  \/ /\ id \in NextBatchIds
                     /\ id \in IndexIds
                     /\ \/ OnlyContentAndPhase(id)
                        \/ index[id].phase = 2 /\ Removed(id)
       /\ last'.op = "restore" =>
              \A id \in Ids :
                  \/ Untouched(id)
                  \/ id = last'.id /\ OnlyContentAndPhase(id)]_vars

\* C39 witness: a run() has reduced a record that had been read twice, and
\* its access count is still 2
C39_Witness ==
    /\ last.op = "run"
    /\ last.val.transitions.t01 = 1
    /\ \E id \in IndexIds :
          /\ index[id].phase = 1
          /\ stats[id] # NoEntry
          /\ stats[id].access_count = 2

\* C39 witness: a restore_from_archive has brought back a record that had
\* been read, and its access count is still positive
C39_RestoreWitness ==
    /\ last.op = "restore"
    /\ last.val = TRUE
    /\ stats[last.id] # NoEntry
    /\ stats[last.id].access_count > 0

\* C40: stored priority is current.  After update(id, difficulty=d) has
\* succeeded on a listed record, the priority list() reports for id, and
\* the one run() orders its batch by, is calculate() of d, the id's stats
\* entry and the current session.
C40_StoredPriorityCurrent ==
    (/\ last.op = "update"
     /\ last.exc = "none"
     /\ "difficulty" \in DOMAIN last.arg
     /\ last.id \in IndexIds) =>
        /\ ListedPriority(last.id)
              = Calculate(last.arg.difficulty, stats[last.id], SessionCount)
        /\ \A k \in 1..Len(NextBatch) :
              NextBatch[k].id = last.id =>
                  NextBatch[k].priority
                     = Calculate(last.arg.difficulty, stats[last.id],
                                 SessionCount)

====
